---- MODULE Spec2Model ----
(***************************************************************************)
(* A model of fpt, the fault-proof conformance test harness                *)
(* (ethstorage/fp-tests): the component registry and its compatibility     *)
(* matrix resolution (src/registry/mod.rs), and the staged test pipeline   *)
(* setup -> run -> teardown (src/pipeline/mod.rs, src/pipeline/runnable.rs)*)
(* as driven by the command line (src/cli.rs, src/main.rs).                *)
(*                                                                         *)
(* Two specifications share the variables:                                 *)
(*   SpecMatrix  every registry and every selection within the bounds,     *)
(*               followed by the one call of resolve_matrix;               *)
(*   Spec        the `test` subcommand on a few registries: resolve the    *)
(*               matrix, then the pipeline with its concurrent tasks.      *)
(***************************************************************************)
EXTENDS Integers, Sequences, FiniteSets, TLC

(***************************************************************************)
(* Bounds of the model.                                                    *)
(***************************************************************************)
\* number of program kinds the registries of SpecMatrix range over
MaxPrograms == 1
\* number of fixture directories under tests/
MaxFixtures == 1
\* largest worker count (--workers) tried
MaxWorkers == 2
\* largest status byte a backend returns / a fixture expects
MaxStatus == 1
\* largest number of steps (" && "-separated commands) of a build command
MaxSteps == 2
\* number of try_build calls made on one component
MaxBuilds == 2
\* largest magnitude of the exit code (an i32) of a host process
MaxExitCode == 300

VARIABLES
    registry,       \* FP_REGISTRY: the platform and program definitions
    cfg,            \* the Option<&TestConfig> handed to resolve_matrix
    matrix,         \* TestPipeline.matrix: the Vec<PlatformAndPrograms>
    pc,             \* position of the command-line flow / pipeline stage
    fixtures,       \* the fixture directories under tests/: dir -> expected_status
    tests,          \* TestPipeline.tests: Option<Vec<RunnableTest>>
    stage,          \* which stage's JoinSet the tasks belong to
    work,           \* the items the stage's tasks were spawned for
    tstate,         \* the state of each spawned task of the stage
    permits,        \* permits available in the stage's Semaphore
    num_passed,     \* run(): the pass counter of the join loop
    summary,        \* the "Completed - n passed, m failed" line, once printed
    err,            \* the error the flow returned, if any
    exit_code,      \* the process exit code, once main has returned
    genesis,        \* fixture dirs holding a plaintext genesis.json
    witness,        \* fixture dirs holding a witness-db directory
    decompress_calls, \* per fixture dir: calls of RunnableTest::decompress_fixture
    teardown_calls, \* per fixture dir: calls of RunnableTest::teardown
    compressed,     \* per fixture dir: the compressed files it holds
    run_calls,      \* per task of the run stage: calls of RunnableTest::run
    semaphores,     \* number of Semaphore::new calls of the pipeline so far
    built,          \* try_build_matrix: the try_build calls made, in order
    components,     \* COMPONENTS_DIR: repo -> the checkout found there
    cmds,           \* the child processes a build has run, in order
    arg,            \* the argument of the function under study
    ret             \* what the function under study returned

matrix_vars == <<registry, cfg, matrix>>
fs_vars == <<genesis, witness, decompress_calls, teardown_calls, compressed>>
task_vars == <<stage, work, tstate, permits, semaphores, run_calls>>
call_vars == <<components, cmds, arg, ret>>
vars == <<registry, cfg, matrix, pc, fixtures, tests, stage, work, tstate,
          permits, num_passed, summary, err, exit_code, genesis, witness,
          decompress_calls, teardown_calls, compressed, run_calls, semaphores,
          built, components, cmds, arg, ret>>

(***************************************************************************)
(* Helpers.                                                                *)
(***************************************************************************)
\* all orders in which the elements of a finite set can be iterated
SeqsOf(S) ==
    {s \in [1..Cardinality(S) -> S] : \A i, j \in 1..Cardinality(S) : i # j => s[i] # s[j]}

Range(s) == {s[i] : i \in DOMAIN s}

\* Option<T>
None == [some |-> FALSE, val |-> {}]
Some(v) == [some |-> TRUE, val |-> v]

(***************************************************************************)
(* The registry (src/registry/mod.rs, platform.rs, program.rs).            *)
(***************************************************************************)
PlatformKind == {"native", "cannon", "asterisc"}

ProgramKindList ==
    <<"op-program-native", "op-program-mips", "op-program-riscv", "kona-native", "kona-riscv">>

ProgramKind == Range(ProgramKindList)

\* BuildInstructions: the repo, the revision, the workdir, the build command
\* split at " && " into its steps, and the names of the declared artifacts
\* (the relative path of an artifact is named as the artifact is)
BuildInstructions(repo, artifacts) ==
    [repo |-> repo, rev |-> "main", workdir |-> ".", cmd |-> <<"make">>, artifacts |-> artifacts]

\* Option<BuildInstructions> of a platform: the native platform needs no binary
PlatformBuild(kind) ==
    IF kind = "native" THEN [some |-> FALSE, val |-> BuildInstructions("", {})]
    ELSE [some |-> TRUE, val |-> BuildInstructions(kind, {"vm"})]

PlatformDefinition(kind) ==
    [default : BOOLEAN, build : {PlatformBuild(kind)}]

FPPDefinition(kind) ==
    [default : BOOLEAN,
     platform_compat : SUBSET PlatformKind,
     build : {BuildInstructions(kind, {"client", "host"})}]

\* every map from some of the keys to a definition of that key
MapsOver(keys, Def(_)) ==
    UNION {{f \in [D -> UNION {Def(k) : k \in D}] : \A k \in D : f[k] \in Def(k)} : D \in SUBSET keys}

\* the registries SpecMatrix ranges over
ModelledPrograms ==
    {ProgramKindList[i] : i \in 1..(IF MaxPrograms < 5 THEN MaxPrograms ELSE 5)}

\* the program kinds a --program allow-list may name: those of the registries
\* and one more, which no modelled registry defines
AllowListablePrograms ==
    {ProgramKindList[i] : i \in 1..(IF MaxPrograms < 4 THEN MaxPrograms + 1 ELSE 5)}

Registries ==
    [platform : MapsOver(PlatformKind, PlatformDefinition),
     program : MapsOver(ModelledPrograms, FPPDefinition)]

\* TestConfig (src/cli.rs): the allow-lists are Option<Vec<_>>, read only
\* through `contains`, and hold at least one kind when the flag is given;
\* `given` is FALSE for resolve_matrix(None)
OptionSets(S) == {None} \cup {Some(x) : x \in (SUBSET S) \ {{}}}

NoCfg == [given |-> FALSE, vm |-> None, program |-> None, workers |-> 0]

TestConfigs(progs, workerCounts) ==
    [given : {TRUE}, vm : OptionSets(PlatformKind), program : OptionSets(progs),
     workers : workerCounts]

(***************************************************************************)
(* FPRegistry::resolve_matrix (src/registry/mod.rs 41-88).                 *)
(***************************************************************************)
selected_platforms_or_default(reg, c) ==
    IF c.given
    THEN {kind \in DOMAIN reg.platform :
            (c.vm.some /\ kind \in c.vm.val) \/ reg.platform[kind].default}
    ELSE DOMAIN reg.platform

\* lines 44-58: the platforms of the registry that are selected
selected_platforms(reg, c) ==
    IF c.given
    THEN IF c.vm.some
         THEN {kind \in DOMAIN reg.platform : kind \in c.vm.val}
         ELSE {kind \in DOMAIN reg.platform : reg.platform[kind].default}
    ELSE DOMAIN reg.platform

\* lines 65-77: whether the filter_map keeps a program for a platform
keeps_program_no_compat(reg, c, prog_kind, vm_kind) ==
    LET prog_def == reg.program[prog_kind]
    IN  IF c.given
        THEN prog_def.default \/ (c.program.some /\ prog_kind \in c.program.val)
        ELSE TRUE

keeps_program_default_always(reg, c, prog_kind, vm_kind) ==
    LET prog_def == reg.program[prog_kind]
    IN  /\ vm_kind \in prog_def.platform_compat
        /\ prog_def.default \/ (c.given /\ c.program.some /\ prog_kind \in c.program.val)

keeps_program(reg, c, prog_kind, vm_kind) ==
    LET prog_def == reg.program[prog_kind]
        platform_compat == vm_kind \in prog_def.platform_compat
    IN  IF c.given
        THEN LET is_default == prog_def.default
                 is_selected == c.program.some /\ prog_kind \in c.program.val
             IN  platform_compat /\ (is_default \/ is_selected)
        ELSE platform_compat

\* lines 61-79: the program map of one platform
compat(reg, c, vm_kind) ==
    LET kept == {prog_kind \in DOMAIN reg.program : keeps_program(reg, c, prog_kind, vm_kind)}
    IN  [prog_kind \in kept |-> reg.program[prog_kind]]

\* lines 81-85
PlatformAndPrograms(reg, c, vm_kind) ==
    [vm |-> reg.platform[vm_kind], vm_kind |-> vm_kind, programs |-> compat(reg, c, vm_kind)]

\* the Vec pushed while iterating the HashMap of selected platforms, in any
\* of the orders the HashMap may iterate in
matrix_of(reg, c, order) ==
    [i \in DOMAIN order |-> PlatformAndPrograms(reg, c, order[i])]

resolve_matrix(reg, c) ==
    {matrix_of(reg, c, order) : order \in SeqsOf(selected_platforms(reg, c))}


(***************************************************************************)
(* The inputs of the pipeline specification.                               *)
(***************************************************************************)
\* the registry the pipeline runs on: both platforms run by default, the
\* native program runs by default, the mips program only when asked for
SampleRegistry ==
    [platform |->
        [kind \in {"native", "cannon"} |-> [default |-> TRUE, build |-> PlatformBuild(kind)]],
     program |->
        [kind \in {"op-program-native", "op-program-mips"} |->
            [default |-> kind = "op-program-native",
             platform_compat |-> IF kind = "op-program-native" THEN {"native"} ELSE {"cannon"},
             build |-> BuildInstructions(kind, {"client", "host"})]]]

\* the `test` selections the pipeline is run with
SampleConfigs ==
    [given : {TRUE},
     test : {None, Some("2")},
     vm : {None, Some({"native"}), Some({"cannon"})},
     program : {None, Some({"op-program-mips"})},
     workers : 0..MaxWorkers]

\* a status byte: what a backend returns and what a fixture expects
StatusByte == 0..MaxStatus

\* a directory under tests/ whose fixture.toml cannot be read or parsed
NoDescriptor == -1

\* the contents of tests/: directories 1..n, each with the expected_status
\* of its descriptor, or without a usable descriptor
FixtureDirs == UNION {[1..n -> StatusByte \cup {NoDescriptor}] : n \in 0..MaxFixtures}

\* the compressed files of a fixture directory
GenesisArchive == "genesis.json.zst"
WitnessArchive == "witness-db.tar.zst"
Archives == {GenesisArchive, WitnessArchive}

NoTests == [some |-> FALSE, val |-> <<>>]
NoSummary == [some |-> FALSE, passed |-> 0, failed |-> 0]
NoError == [some |-> FALSE, kind |-> "", who |-> ""]
Error(kind, who) == [some |-> TRUE, kind |-> kind, who |-> who]
NotExited == -1

\* no function is under study
NoCall ==
    /\ components = <<>>
    /\ cmds = <<>>
    /\ arg = <<>>
    /\ ret = <<>>

\* the state before the command line is handled
Idle ==
    /\ matrix = <<>>
    /\ pc = "cli"
    /\ tests = NoTests
    /\ stage = "none"
    /\ work = <<>>
    /\ tstate = <<>>
    /\ permits = 0
    /\ num_passed = 0
    /\ summary = NoSummary
    /\ err = NoError
    /\ exit_code = NotExited
    /\ genesis = {}
    /\ witness = {}
    /\ decompress_calls = [d \in DOMAIN fixtures |-> 0]
    /\ teardown_calls = [d \in DOMAIN fixtures |-> 0]
    /\ compressed = [d \in DOMAIN fixtures |-> Archives]
    /\ run_calls = <<>>
    /\ semaphores = 0
    /\ built = <<>>
    /\ NoCall

InitMatrix ==
    /\ registry \in Registries
    /\ cfg \in {NoCfg} \cup TestConfigs(AllowListablePrograms, {1})
    /\ fixtures = <<>>
    /\ Idle

Init ==
    /\ registry = SampleRegistry
    /\ cfg \in SampleConfigs
    /\ fixtures \in FixtureDirs
    /\ Idle

(***************************************************************************)
(* Cli::run (src/cli.rs 33-42): resolve the matrix, create the pipeline.   *)
(***************************************************************************)
CliResolve ==
    /\ pc = "cli"
    /\ matrix' \in resolve_matrix(registry, cfg)
    /\ pc' = IF cfg.given THEN "Initialized" ELSE "listed"
    /\ UNCHANGED <<registry, cfg, fixtures, tests, task_vars, num_passed, summary, err,
                   exit_code, fs_vars,
                   built, call_vars>>


(***************************************************************************)
(* The tasks of a stage: a JoinSet of futures gated by a Semaphore.        *)
(***************************************************************************)
\* the status of a task whose backend returned no status byte
NoStatus == -1

\* a task that was spawned and waits for its permit
Spawned ==
    [st |-> "waiting", joined |-> FALSE, err |-> FALSE, pass |-> FALSE, status |-> NoStatus]

\* a task that returned `res`; `status` is the byte its backend returned
Finished(res, status) ==
    [st |-> "finished", joined |-> FALSE, err |-> res.err, pass |-> res.pass, status |-> status]

Ok == [err |-> FALSE, pass |-> FALSE]
Err == [err |-> TRUE, pass |-> FALSE]

\* Semaphore::new(self.cfg.workers): the permits of a new pool
Semaphore_new_unbounded(workers) == workers + 1

Semaphore_new_at_least_one(workers) == IF workers = 0 THEN 1 ELSE workers

Semaphore_new(workers) == workers

\* `let _permit = semaphore.acquire().await?`
Acquire_ungated(i) ==
    /\ tstate[i].st = "waiting"
    /\ permits' = permits - 1
    /\ tstate' = [tstate EXCEPT ![i].st = "running"]

Acquire(i) ==
    /\ tstate[i].st = "waiting"
    /\ permits > 0
    /\ permits' = permits - 1
    /\ tstate' = [tstate EXCEPT ![i].st = "running"]

\* the task returns and its permit is dropped
Return(i, res, status) ==
    /\ tstate' = [tstate EXCEPT ![i] = Finished(res, status)]
    /\ permits' = permits + 1

\* dropping the JoinSet aborts every task that has not returned
Abort(ts) ==
    [i \in DOMAIN ts |-> IF ts[i].st = "finished" THEN ts[i] ELSE [ts[i] EXCEPT !.st = "aborted"]]

\* `result??` on the output of a joined task: the error, or the value
Unwrap_swallowing(t) == [err |-> FALSE, pass |-> t.pass]

Unwrap(t) == [err |-> t.err, pass |-> t.pass]

\* join_next(): some task that has returned and was not yet handed out
Joinable(i) == tstate[i].st = "finished" /\ ~tstate[i].joined

AllJoined_not_awaited == TRUE

AllJoined == \A i \in DOMAIN tstate : tstate[i].st = "finished" /\ tstate[i].joined

\* itertools unique_by on the genesis path: the first test of each fixture
RECURSIVE unique_by(_, _)
unique_by(ts, seen) ==
    IF ts = <<>> THEN <<>>
    ELSE IF Head(ts).fixture \in seen THEN unique_by(Tail(ts), seen)
         ELSE <<Head(ts)>> \o unique_by(Tail(ts), seen \cup {Head(ts).fixture})

\* decompress_fixtures 273-277
decompress_every_test(ts) == ts

decompress_unique_fixtures(ts) == unique_by(ts, {})

\* teardown 155-159
teardown_every_test(ts) == ts

teardown_unique_fixtures(ts) == unique_by(ts, {})

(***************************************************************************)
(* TestPipeline::setup (src/pipeline/mod.rs 53-64).                        *)
(***************************************************************************)
\* the repos try_build_matrix builds: the programs and the platform of
\* every entry
Components(m) ==
    UNION {{m[i].programs[p].build.repo : p \in DOMAIN m[i].programs}
           \cup (IF m[i].vm.build.some THEN {m[i].vm.build.val.repo} ELSE {})
           : i \in DOMAIN m}

\* the errors try_build returns (src/registry/build.rs): a failed child
\* process is reported with the repo, a failed `git checkout` with the
\* revision, and a child that could not be spawned, or an empty command,
\* with neither
BuildError(msg, who) == [msg |-> msg, who |-> who]

CloneFailed(b) == BuildError("Failed to clone repository", b.repo)
FetchFailed(b) == BuildError("Failed to fetch upstream", b.repo)
CheckoutFailed(b) == BuildError("Failed to checkout revision", b.rev)
BuildFailed(b) == BuildError("Failed to build repository", b.repo)
CommandEmpty == BuildError("Command is empty", "")
SpawnFailed == BuildError("io", "")

BuildErrors(b) ==
    {CloneFailed(b), FetchFailed(b), CheckoutFailed(b), BuildFailed(b), CommandEmpty, SpawnFailed}

\* try_build_matrix 205-215: the repos entry i had try_build called for
EntryBuilt(i) == {built[k].repo : k \in {k \in DOMAIN built : built[k].entry = i}}

\* the builds entry i still has to make: its programs, in the order of the
\* HashMap, and then its platform if that has build instructions
NextBuilds(m, i) ==
    LET programs == {m[i].programs[p].build : p \in DOMAIN m[i].programs}
        todo == {b \in programs : b.repo \notin EntryBuilt(i)}
    IN  IF todo # {} THEN todo
        ELSE IF m[i].vm.build.some /\ m[i].vm.build.val.repo \notin EntryBuilt(i)
             THEN {m[i].vm.build.val}
             ELSE {}

Unbuilt(m) == {i \in DOMAIN m : NextBuilds(m, i) # {}}

\* lines 208 and 213: one `try_build().await?`, on the first entry that is
\* not built yet; an error returns from try_build_matrix and from setup
TryBuild ==
    /\ pc = "Initialized"
    /\ Unbuilt(matrix) # {}
    /\ LET i == CHOOSE i \in Unbuilt(matrix) : \A j \in Unbuilt(matrix) : i <= j
       IN  \E b \in NextBuilds(matrix, i) :
              \/ /\ built' = Append(built, [entry |-> i, repo |-> b.repo, ok |-> TRUE])
                 /\ UNCHANGED <<pc, err>>
              \/ \E e \in BuildErrors(b) :
                    /\ built' = Append(built, [entry |-> i, repo |-> b.repo, ok |-> FALSE])
                    /\ pc' = "error"
                    /\ err' = Error("build", e.who)
    /\ UNCHANGED <<matrix_vars, fixtures, tests, task_vars, num_passed, summary,
                   exit_code, fs_vars, call_vars>>

\* line 216: every component is built
TryBuildMatrix ==
    /\ pc = "Initialized"
    /\ Unbuilt(matrix) = {}
    /\ pc' = "built"
    /\ UNCHANGED <<matrix_vars, fixtures, tests, task_vars, num_passed, summary, err,
                   exit_code, fs_vars, built, call_vars>>

\* the RunnableTest of a platform, a program and a fixture directory
RunnableTest(entry, program_kind, dir) ==
    [fixture |-> dir,
     expected_status |-> fixtures[dir],
     platform_kind |-> entry.vm_kind,
     program_kind |-> program_kind]

RECURSIVE Flatten(_)
Flatten(ss) == IF ss = <<>> THEN <<>> ELSE Head(ss) \o Flatten(Tail(ss))

\* DirEntry::file_name of directory d of tests/
file_name(d) == ToString(d)

\* glob::Pattern::matches for the patterns tried: "*", or a literal name
Pattern_matches(glob, name) == glob = "*" \/ glob = name

\* gather_tests 223: `self.cfg.test.as_ref().unwrap_or(&"*".to_string())`
glob_of(c) == IF c.test.some THEN c.test.val ELSE "*"

\* gather_tests 225-239: the directories whose name matches the glob and
\* whose fixture.toml parses, in the order of read_dir
enabled_fixtures_any_name(entries, glob) ==
    LET enabled(d) == entries[d] # NoDescriptor
    IN  SelectSeq([d \in DOMAIN entries |-> d], enabled)

enabled_fixtures_any_descriptor(entries, glob) ==
    LET enabled(d) == Pattern_matches(glob, file_name(d))
    IN  SelectSeq([d \in DOMAIN entries |-> d], enabled)

enabled_fixtures(entries, glob) ==
    LET enabled(d) == Pattern_matches(glob, file_name(d)) /\ entries[d] # NoDescriptor
    IN  SelectSeq([d \in DOMAIN entries |-> d], enabled)

\* the tests pushed by the three nested loops of gather_tests (243-266), the
\* programs of entry i being iterated in the order program_order[i]
gathered(m, program_order) ==
    LET enabled == enabled_fixtures(fixtures, glob_of(cfg))
    IN  Flatten([i \in DOMAIN m |->
            Flatten([j \in DOMAIN program_order[i] |->
                [k \in DOMAIN enabled |-> RunnableTest(m[i], program_order[i][j], enabled[k])]])])

ProgramOrders(m) ==
    {o \in [DOMAIN m -> UNION {SeqsOf(DOMAIN m[i].programs) : i \in DOMAIN m}] :
        \A i \in DOMAIN m : o[i] \in SeqsOf(DOMAIN m[i].programs)}

\* gather_tests: the cross product of the matrix and the fixtures
GatherTests ==
    /\ pc = "built"
    /\ \E program_order \in ProgramOrders(matrix) :
          tests' = [some |-> TRUE, val |-> gathered(matrix, program_order)]
    /\ pc' = "gathered"
    /\ UNCHANGED <<matrix_vars, fixtures, task_vars, num_passed, summary, err,
                   exit_code, fs_vars,
                   built, call_vars>>

\* decompress_fixtures, up to the join loop: one task per distinct fixture
DecompressSpawn ==
    /\ pc = "gathered"
    /\ tests.some
    /\ work' = decompress_unique_fixtures(tests.val)
    /\ tstate' = [i \in DOMAIN work' |-> Spawned]
    /\ permits' = Semaphore_new(cfg.workers)
    /\ semaphores' = semaphores + 1
    /\ stage' = "setup"
    /\ pc' = "setup_join"
    /\ UNCHANGED <<matrix_vars, fixtures, tests, run_calls, num_passed, summary, err, exit_code, fs_vars,
                   built, call_vars>>

DecompressAcquire(i) ==
    /\ pc = "setup_join"
    /\ Acquire(i)
    /\ UNCHANGED <<matrix_vars, pc, fixtures, tests, stage, semaphores, work, run_calls, num_passed, summary, err,
                   exit_code, fs_vars,
                   built, call_vars>>

\* `zstd -d <file>` (runnable.rs 106-111) on the compressed files a
\* directory holds: without --rm the source file is kept
zstd_d_rm(held, file) == held \ {file}

zstd_d(held, file) == held

\* `tar --zstd -xvf <file>` (runnable.rs 118-124): the archive is kept
tar_xvf(held, file) == held

\* RunnableTest::decompress_fixture (runnable.rs 97-131) and the end of
\* the task: zstd writes genesis.json, then tar writes witness-db; either
\* command may fail
DecompressTask(i) ==
    /\ pc = "setup_join"
    /\ tstate[i].st = "running"
    /\ LET dir == work[i].fixture
           unzipped == zstd_d(compressed[dir], GenesisArchive)
       IN  /\ decompress_calls' = [decompress_calls EXCEPT ![dir] = @ + 1]
           /\ \/ /\ Return(i, Err, NoStatus)
                 /\ UNCHANGED <<genesis, witness, compressed>>
              \/ /\ GenesisArchive \in compressed[dir]
                 /\ Return(i, Err, NoStatus)
                 /\ genesis' = genesis \cup {dir}
                 /\ compressed' = [compressed EXCEPT ![dir] = unzipped]
                 /\ UNCHANGED witness
              \/ /\ GenesisArchive \in compressed[dir]
                 /\ WitnessArchive \in unzipped
                 /\ Return(i, Ok, NoStatus)
                 /\ genesis' = genesis \cup {dir}
                 /\ witness' = witness \cup {dir}
                 /\ compressed' = [compressed EXCEPT ![dir] = tar_xvf(unzipped, WitnessArchive)]
    /\ UNCHANGED <<matrix_vars, pc, fixtures, tests, stage, semaphores, work, run_calls, num_passed, summary, err,
                   exit_code, teardown_calls,
                   built, call_vars>>

\* the join loop of decompress_fixtures (310-312): `result??`
DecompressJoin(i) ==
    /\ pc = "setup_join"
    /\ Joinable(i)
    /\ IF Unwrap(tstate[i]).err
       THEN /\ pc' = "error"
            /\ err' = Error("decompress", "")
            /\ tstate' = Abort(tstate)
       ELSE /\ tstate' = [tstate EXCEPT ![i].joined = TRUE]
            /\ UNCHANGED <<pc, err>>
    /\ UNCHANGED <<matrix_vars, fixtures, tests, stage, semaphores, work, run_calls, permits, num_passed, summary,
                   exit_code, fs_vars,
                   built, call_vars>>

\* join_next() returns None: decompress_fixtures and setup return Ok
SetupDone ==
    /\ pc = "setup_join"
    /\ AllJoined
    /\ pc' = "Ready"
    /\ UNCHANGED <<matrix_vars, fixtures, tests, task_vars, num_passed, summary, err,
                   exit_code, fs_vars,
                   built, call_vars>>

(***************************************************************************)
(* TestPipeline::run (src/pipeline/mod.rs 70-146).                         *)
(***************************************************************************)
\* `for case in tests` (86-129): the tests a task is spawned for
spawn_per_test_twice(ts) == ts \o ts

spawn_per_test(ts) == ts

\* lines 71-129: one task per test
RunSpawn ==
    /\ pc = "Ready"
    /\ tests.some
    /\ work' = spawn_per_test(tests.val)
    /\ tstate' = [i \in DOMAIN work' |-> Spawned]
    /\ permits' = Semaphore_new(cfg.workers)
    /\ semaphores' = semaphores + 1
    /\ stage' = "run"
    /\ run_calls' = [i \in DOMAIN work' |-> 0]
    /\ num_passed' = 0
    /\ pc' = "run_join"
    /\ UNCHANGED <<matrix_vars, fixtures, tests, summary, err, exit_code, fs_vars,
                   built, call_vars>>

RunAcquire(i) ==
    /\ pc = "run_join"
    /\ Acquire(i)
    /\ UNCHANGED <<matrix_vars, pc, fixtures, tests, stage, semaphores, work, run_calls, num_passed, summary, err,
                   exit_code, fs_vars,
                   built, call_vars>>

\* what the backend of a test does: an infrastructure error (a missing
\* artifact, a failed spawn, a guest that did not exit) or a status byte
BackendOutcomes ==
    {[err |-> TRUE, status |-> NoStatus]} \cup {[err |-> FALSE, status |-> s] : s \in StatusByte}

\* RunnableTest::run (runnable.rs 57-94): `?` passes an error on, otherwise
\* the test passes when the status is the expected one
run_result_always_pass(outcome, expected_status) ==
    IF outcome.err THEN Err ELSE [err |-> FALSE, pass |-> TRUE]

run_result(outcome, expected_status) ==
    IF outcome.err THEN Err
    ELSE [err |-> FALSE, pass |-> outcome.status = expected_status]

\* lines 97-128: the task runs its test and returns
RunTask(i) ==
    /\ pc = "run_join"
    /\ tstate[i].st = "running"
    /\ run_calls' = [run_calls EXCEPT ![i] = @ + 1]
    /\ \E outcome \in BackendOutcomes :
          Return(i, run_result(outcome, work[i].expected_status), outcome.status)
    /\ UNCHANGED <<matrix_vars, pc, fixtures, tests, stage, semaphores, work, num_passed, summary, err,
                   exit_code, fs_vars,
                   built, call_vars>>

\* lines 133-135: `num_passed += result?? as usize`
RunJoin(i) ==
    /\ pc = "run_join"
    /\ Joinable(i)
    /\ IF Unwrap(tstate[i]).err
       THEN /\ pc' = "error"
            /\ err' = Error("run", "")
            /\ tstate' = Abort(tstate)
            /\ UNCHANGED num_passed
       ELSE /\ tstate' = [tstate EXCEPT ![i].joined = TRUE]
            /\ num_passed' = num_passed + (IF Unwrap(tstate[i]).pass THEN 1 ELSE 0)
            /\ UNCHANGED <<pc, err>>
    /\ UNCHANGED <<matrix_vars, fixtures, tests, stage, semaphores, work, run_calls, permits, summary,
                   exit_code, fs_vars,
                   built, call_vars>>

\* lines 136-145: the summary line, then Ok
RunDone ==
    /\ pc = "run_join"
    /\ AllJoined
    /\ summary' = [some |-> TRUE, passed |-> num_passed, failed |-> Len(work) - num_passed]
    /\ pc' = "Ran"
    /\ UNCHANGED <<matrix_vars, fixtures, tests, task_vars, num_passed, err,
                   exit_code, fs_vars,
                   built, call_vars>>

(***************************************************************************)
(* TestPipeline::teardown (src/pipeline/mod.rs 152-201).                   *)
(***************************************************************************)
\* Cli::run (cli.rs 35-41): teardown is called on the pipeline run returned;
\* the `?` on the result of run returns its error instead
teardown_called_despite_error(at) == at \in {"Ran", "error"}

teardown_called(at) == at = "Ran"

\* lines 153-170: tests.take(), one task per distinct fixture
TeardownSpawn ==
    /\ teardown_called(pc)
    /\ tests.some
    /\ work' = teardown_unique_fixtures(tests.val)
    /\ tests' = NoTests
    /\ tstate' = [i \in DOMAIN work' |-> Spawned]
    /\ permits' = Semaphore_new(cfg.workers)
    /\ semaphores' = semaphores + 1
    /\ stage' = "teardown"
    /\ pc' = "teardown_join"
    /\ UNCHANGED <<matrix_vars, fixtures, run_calls, num_passed, summary, err, exit_code, fs_vars,
                   built, call_vars>>

TeardownAcquire(i) ==
    /\ pc = "teardown_join"
    /\ Acquire(i)
    /\ UNCHANGED <<matrix_vars, pc, fixtures, tests, stage, semaphores, work, run_calls, num_passed, summary, err,
                   exit_code, fs_vars,
                   built, call_vars>>

\* RunnableTest::teardown (runnable.rs 134-147) and the end of the task:
\* remove_file(genesis.json)?, then remove_dir_all(witness-db)?; removing
\* what is not there is an error
TeardownTask(i) ==
    /\ pc = "teardown_join"
    /\ tstate[i].st = "running"
    /\ LET dir == work[i].fixture
       IN  /\ teardown_calls' = [teardown_calls EXCEPT ![dir] = @ + 1]
           /\ IF dir \notin genesis
              THEN /\ Return(i, Err, NoStatus)
                   /\ UNCHANGED <<genesis, witness>>
              ELSE /\ genesis' = genesis \ {dir}
                   /\ IF dir \notin witness
                      THEN /\ Return(i, Err, NoStatus)
                           /\ UNCHANGED witness
                      ELSE /\ witness' = witness \ {dir}
                           /\ Return(i, Ok, NoStatus)
    /\ UNCHANGED <<matrix_vars, pc, fixtures, tests, stage, semaphores, work, run_calls, num_passed, summary, err,
                   exit_code, decompress_calls, compressed,
                   built, call_vars>>

\* lines 191-193: `result??`
TeardownJoin(i) ==
    /\ pc = "teardown_join"
    /\ Joinable(i)
    /\ IF Unwrap(tstate[i]).err
       THEN /\ pc' = "error"
            /\ err' = Error("teardown", "")
            /\ tstate' = Abort(tstate)
       ELSE /\ tstate' = [tstate EXCEPT ![i].joined = TRUE]
            /\ UNCHANGED <<pc, err>>
    /\ UNCHANGED <<matrix_vars, fixtures, tests, stage, semaphores, work, run_calls, permits, num_passed, summary,
                   exit_code, fs_vars,
                   built, call_vars>>

\* lines 195-200
TeardownDone ==
    /\ pc = "teardown_join"
    /\ AllJoined
    /\ pc' = "Done"
    /\ UNCHANGED <<matrix_vars, fixtures, tests, task_vars, num_passed, summary, err,
                   exit_code, fs_vars,
                   built, call_vars>>

(***************************************************************************)
(* main (src/main.rs 16-19): the Result of Cli::run is the exit code.      *)
(***************************************************************************)
exit_code_of(failed) == IF failed THEN 1 ELSE 0

Exit ==
    /\ pc \in {"Done", "error"}
    /\ exit_code = NotExited
    /\ exit_code' = exit_code_of(pc = "error")
    /\ UNCHANGED <<matrix_vars, pc, fixtures, tests, task_vars, num_passed, summary, err,
                   fs_vars,
                   built, call_vars>>

Next ==
    \/ CliResolve
    \/ TryBuild
    \/ TryBuildMatrix
    \/ GatherTests
    \/ DecompressSpawn
    \/ \E i \in DOMAIN tstate : DecompressAcquire(i)
    \/ \E i \in DOMAIN tstate : DecompressTask(i)
    \/ \E i \in DOMAIN tstate : DecompressJoin(i)
    \/ SetupDone
    \/ RunSpawn
    \/ \E i \in DOMAIN tstate : RunAcquire(i)
    \/ \E i \in DOMAIN tstate : RunTask(i)
    \/ \E i \in DOMAIN tstate : RunJoin(i)
    \/ RunDone
    \/ TeardownSpawn
    \/ \E i \in DOMAIN tstate : TeardownAcquire(i)
    \/ \E i \in DOMAIN tstate : TeardownTask(i)
    \/ \E i \in DOMAIN tstate : TeardownJoin(i)
    \/ TeardownDone
    \/ Exit

Spec == Init /\ [][Next]_vars

NextMatrix == CliResolve

SpecMatrix == InitMatrix /\ [][NextMatrix]_vars

(***************************************************************************)
(* The stage methods as their signatures offer them to a caller.  The      *)
(* three stages are methods of the one type TestPipeline: setup(mut self)  *)
(* and run(self) return Result<Self>, teardown(mut self) returns           *)
(* Result<()>.  Whoever owns a TestPipeline may call any of them; a call   *)
(* consumes the value and an Ok of setup or run hands it back.  Each       *)
(* action is a whole call.                                                 *)
(***************************************************************************)
\* the caller owns a TestPipeline: fresh from new(), or handed back by
\* setup or by run
Handles == {"Initialized", "Ready", "Ran"}

\* the fixtures of the tests of the pipeline
fixtures_of(ts) == {ts[i].fixture : i \in DOMAIN ts}

\* setup (53-64): build, gather, decompress; any error is returned.  A
\* failed decompression leaves the files it made until then
CallSetup ==
    /\ pc \in Handles
    /\ \/ /\ Components(matrix) # {}
          /\ pc' = "error"
          /\ err' = Error("build", "")
          /\ UNCHANGED <<tests, stage, genesis, witness>>
       \/ \E program_order \in ProgramOrders(matrix) :
             /\ tests' = [some |-> TRUE, val |-> gathered(matrix, program_order)]
             /\ stage' = "setup"
             /\ \/ /\ tests'.val # <<>>
                   /\ pc' = "error"
                   /\ err' = Error("decompress", "")
                   /\ \E done \in SUBSET fixtures_of(tests'.val) :
                         /\ genesis' = genesis \cup done
                         /\ witness' \in {witness, witness \cup done}
                \/ /\ pc' = "Ready"
                   /\ genesis' = genesis \cup fixtures_of(tests'.val)
                   /\ witness' = witness \cup fixtures_of(tests'.val)
                   /\ UNCHANGED err
    /\ UNCHANGED <<matrix_vars, fixtures, work, tstate, permits, semaphores, run_calls, num_passed, summary,
                   exit_code, decompress_calls, teardown_calls, compressed, built, call_vars>>

\* `self.tests.clone().ok_or(..)?` (71), `self.tests.take().ok_or(..)?` (153)
is_some_unchecked(tests_) == TRUE

is_some(tests_) == tests_.some

\* run (70-146): `self.tests.clone().ok_or(eyre!("No tests to run"))?`, then
\* the tests; an error of a task is returned, otherwise the
\* summary is printed
CallRun ==
    /\ pc \in Handles
    /\ IF ~is_some(tests)
       THEN /\ pc' = "error"
            /\ err' = Error("run", "No tests to run")
            /\ UNCHANGED <<summary, stage>>
       ELSE /\ stage' = "run"
            /\ \/ /\ tests.val # <<>>
                  /\ pc' = "error"
                  /\ err' = Error("run", "")
                  /\ UNCHANGED summary
               \/ \E n \in 0..Len(tests.val) :
                     /\ summary' = [some |-> TRUE, passed |-> n, failed |-> Len(tests.val) - n]
                     /\ pc' = "Ran"
                     /\ UNCHANGED err
    /\ UNCHANGED <<matrix_vars, fixtures, tests, work, tstate, permits, semaphores, run_calls, num_passed,
                   exit_code, fs_vars, built, call_vars>>

\* teardown (152-201): `self.tests.take().ok_or(eyre!("No tests to run"))?`,
\* then the cleanup, which deletes the files of the fixtures; a
\* failed one leaves the files it did not get to.  The pipeline is not
\* handed back
CallTeardown ==
    /\ pc \in Handles
    /\ IF ~is_some(tests)
       THEN /\ pc' = "error"
            /\ err' = Error("teardown", "No tests to run")
            /\ UNCHANGED <<tests, stage, genesis, witness>>
       ELSE /\ tests' = NoTests
            /\ stage' = "teardown"
            /\ \/ /\ tests.val # <<>>
                  /\ pc' = "error"
                  /\ err' = Error("teardown", "")
                  /\ \E done \in SUBSET fixtures_of(tests.val) :
                        /\ genesis' = genesis \ done
                        /\ witness' \in {witness, witness \ done}
               \/ /\ fixtures_of(tests.val) \subseteq genesis \cap witness
                  /\ pc' = "Done"
                  /\ genesis' = genesis \ fixtures_of(tests.val)
                  /\ witness' = witness \ fixtures_of(tests.val)
                  /\ UNCHANGED err
    /\ UNCHANGED <<matrix_vars, fixtures, work, tstate, permits, semaphores, run_calls, num_passed, summary,
                   exit_code, decompress_calls, teardown_calls, compressed, built, call_vars>>

NextApi ==
    \/ CliResolve
    \/ CallSetup
    \/ CallRun
    \/ CallTeardown

SpecApi == Init /\ [][NextApi]_vars

(***************************************************************************)
(* BuildInstructions (src/registry/build.rs): try_build, sync_repo and     *)
(* get_artifact of one component, called against a COMPONENTS_DIR that     *)
(* holds a checkout of its repo, at some revision, or none.                *)
(***************************************************************************)
COMPONENTS_DIR == "~/.fpt/components"

Revs == {"v1", "v2"}

\* a step of the build command: a command line, or nothing (as in "a && ")
Steps == {"make", ""}

ArtifactNames == {"client", "host"}

\* a name no component declares
UnknownArtifact == "witness"

\* the components under study
Builds ==
    [repo : {"org/prog"}, rev : Revs, workdir : {"."},
     cmd : UNION {[1..n -> Steps] : n \in 1..MaxSteps},
     artifacts : (SUBSET ArtifactNames) \ {{}}]

\* what COMPONENTS_DIR may hold of the repo before the first call
Checkouts(b) == {<<>>} \cup {(b.repo :> [rev |-> r]) : r \in Revs}

NoBuildError == BuildError("", "")

\* get_artifact (14-21): the path of a declared artifact, or None
get_artifact_undeclared_too(b, name) ==
    [some |-> TRUE, val |-> <<COMPONENTS_DIR, b.repo, b.workdir, name>>]

get_artifact(b, name) ==
    IF name \in b.artifacts
    THEN [some |-> TRUE, val |-> <<COMPONENTS_DIR, b.repo, b.workdir, name>>]
    ELSE [some |-> FALSE, val |-> <<>>]

\* what get_artifact returns for every name
Artifacts(b) == [name \in ArtifactNames \cup {UnknownArtifact} |-> get_artifact(b, name)]

\* a child process: git clone / fetch / checkout (n = 0) or step n of cmd
Cmd(op, n) == [op |-> op, n |-> n]

\* sync_repo (59-124): the git commands it runs, given what COMPONENTS_DIR holds
sync_repo_always_clone(b, comps) == <<Cmd("clone", 0)>>

sync_repo_no_resync(b, comps) ==
    IF b.repo \in DOMAIN comps THEN <<>> ELSE <<Cmd("clone", 0)>>

sync_repo(b, comps) ==
    IF b.repo \in DOMAIN comps
    THEN <<Cmd("fetch", 0), Cmd("checkout", 0)>>
    ELSE <<Cmd("clone", 0)>>

\* try_build (24-56): sync_repo, then the steps of cmd in their order
try_build_plan(b, comps) ==
    sync_repo(b, comps) \o [n \in 1..Len(b.cmd) |-> Cmd("step", n)]

\* the position in the plan of the first step that is no command, else 0
FirstEmpty(b, plan) ==
    LET empties == {k \in DOMAIN plan : plan[k].op = "step" /\ b.cmd[plan[k].n] = ""}
    IN  IF empties = {} THEN 0 ELSE CHOOSE k \in empties : \A j \in empties : k <= j

\* the error of the command that failed: `how` is "status" for a child that
\* exited unsuccessfully, "io" for one that could not be spawned
error_of(b, c, how) ==
    IF how = "io" THEN SpawnFailed
    ELSE CASE c.op = "clone" -> CloneFailed(b)
           [] c.op = "fetch" -> FetchFailed(b)
           [] c.op = "checkout" -> CheckoutFailed(b)
           [] c.op = "step" -> BuildFailed(b)

\* the checkout after the commands plan[1..done] have succeeded
checkout_after(b, comps, plan, done) ==
    IF \E k \in 1..done : plan[k].op \in {"clone", "checkout"}
    THEN [r \in DOMAIN comps \cup {b.repo} |-> IF r = b.repo THEN [rev |-> b.rev] ELSE comps[r]]
    ELSE comps

\* one call of try_build in which command `fail` of the plan is the first
\* to fail (none fails when fail is beyond the plan)
try_build(b, comps, fail, how) ==
    LET plan == try_build_plan(b, comps)
        empty == FirstEmpty(b, plan)
        failed == fail <= Len(plan)
        is_empty == failed /\ fail = empty
        run == IF is_empty THEN fail - 1 ELSE IF failed THEN fail ELSE Len(plan)
        done == IF failed THEN fail - 1 ELSE Len(plan)
    IN  [cmds |-> SubSeq(plan, 1, run),
         components |-> checkout_after(b, comps, plan, done),
         ok |-> ~failed,
         err |-> IF ~failed THEN NoBuildError
                 ELSE IF is_empty THEN CommandEmpty
                 ELSE error_of(b, plan[fail], how)]

\* the commands that can be the first to fail: none after an empty step
FailPoints(b, comps) ==
    LET plan == try_build_plan(b, comps)
        empty == FirstEmpty(b, plan)
    IN  IF empty = 0 THEN 1..(Len(plan) + 1) ELSE 1..empty

CallsOf(fn) == {j \in DOMAIN ret : ret[j].fn = fn}

InitBuild ==
    /\ registry = SampleRegistry
    /\ cfg = NoCfg
    /\ fixtures = <<>>
    /\ matrix = <<>>
    /\ pc = "build"
    /\ tests = NoTests
    /\ stage = "none" /\ work = <<>> /\ tstate = <<>> /\ permits = 0 /\ semaphores = 0
    /\ num_passed = 0 /\ summary = NoSummary /\ err = NoError /\ exit_code = NotExited
    /\ genesis = {} /\ witness = {} /\ compressed = <<>> /\ run_calls = <<>>
    /\ decompress_calls = <<>> /\ teardown_calls = <<>>
    /\ built = <<>>
    /\ arg \in Builds
    /\ components \in Checkouts(arg)
    /\ cmds = <<>>
    /\ ret = <<>>

pipeline_vars ==
    <<matrix_vars, pc, fixtures, tests, task_vars, num_passed, summary, err, exit_code,
      fs_vars, built>>

\* a call of try_build on the component
CallTryBuild ==
    /\ pc = "build"
    /\ CallsOf("get_artifact") = {}
    /\ Cardinality(CallsOf("try_build")) < MaxBuilds
    /\ \E fail \in FailPoints(arg, components), how \in {"status", "io"} :
          LET r == try_build(arg, components, fail, how)
              call == Len(ret) + 1
          IN  /\ cmds' = cmds \o [k \in DOMAIN r.cmds |-> [call |-> call, op |-> r.cmds[k].op, n |-> r.cmds[k].n]]
              /\ components' = r.components
              /\ ret' = Append(ret, [fn |-> "try_build", ok |-> r.ok, err |-> r.err,
                                      name |-> "", path |-> <<>>,
                                      before |-> components, after |-> r.components,
                                      artifacts |-> Artifacts(arg)])
    /\ UNCHANGED <<pipeline_vars, arg>>

\* a call of get_artifact on the component, the last call made on it
CallGetArtifact ==
    /\ pc = "build"
    /\ CallsOf("get_artifact") = {}
    /\ \E name \in ArtifactNames \cup {UnknownArtifact} :
          LET r == get_artifact(arg, name)
          IN  ret' = Append(ret, [fn |-> "get_artifact", ok |-> r.some, err |-> NoBuildError,
                                  name |-> name, path |-> r.val,
                                  before |-> components, after |-> components,
                                  artifacts |-> Artifacts(arg)])
    /\ UNCHANGED <<pipeline_vars, arg, components, cmds>>

NextBuild ==
    \/ CallTryBuild
    \/ CallGetArtifact

SpecBuild == InitBuild /\ [][NextBuild]_vars

(***************************************************************************)
(* Functions studied on their own: the parsers of the kinds                *)
(* (src/registry/platform.rs, program.rs) and Native::run                  *)
(* (src/registry/platform/native.rs).                                      *)
(***************************************************************************)
\* a kind is written as its Display form; Parsed(kind) is Ok(kind) and
\* ParseError(s) the Err of `bail!("Unknown program kind: {}", s)`
Parsed(kind) == [ok |-> TRUE, panicked |-> FALSE, kind |-> kind, msg |-> <<>>]
ParseError(s) == [ok |-> FALSE, panicked |-> FALSE, kind |-> "", msg |-> <<"Unknown program kind: ", s>>]
Panicked(msg) == [ok |-> FALSE, panicked |-> TRUE, kind |-> "", msg |-> msg]

\* impl FromStr for PlatformKind (platform.rs 76-87)
PlatformKind_from_str(s) ==
    CASE s = "native" -> Parsed("native")
      [] s = "cannon" -> Parsed("cannon")
      [] s = "asterisc" -> Parsed("asterisc")
      [] OTHER -> ParseError(s)

\* impl FromStr for ProgramKind (program.rs 51-64)
ProgramKind_from_str(s) ==
    CASE s = "op-program-native" -> Parsed("op-program-native")
      [] s = "op-program-mips" -> Parsed("op-program-mips")
      [] s = "op-program-riscv" -> Parsed("op-program-riscv")
      [] s = "kona-native" -> Parsed("kona-native")
      [] s = "kona-riscv" -> Parsed("kona-native")
      [] OTHER -> ParseError(s)

from_str(target, s) ==
    IF target = "platform" THEN PlatformKind_from_str(s) ELSE ProgramKind_from_str(s)

\* impl From<String> (platform.rs 89-93, program.rs 66-70):
\* `s.parse().unwrap_or_else(|e| panic!("{e}"))`
from_String(target, s) ==
    LET r == from_str(target, s)
    IN  IF r.ok THEN r ELSE Panicked(r.msg)

\* impl Display for PlatformKind (platform.rs 95-103)
PlatformKind_fmt(kind) ==
    CASE kind = "native" -> "native"
      [] kind = "cannon" -> "cannon"
      [] kind = "asterisc" -> "asterisc"

\* impl Display for ProgramKind (program.rs 72-82)
ProgramKind_fmt(kind) ==
    CASE kind = "op-program-native" -> "op-program-native"
      [] kind = "op-program-mips" -> "op-program-mips"
      [] kind = "op-program-riscv" -> "op-program-riscv"
      [] kind = "kona-native" -> "kona-native"
      [] kind = "kona-riscv" -> "kona-riscv"

\* ToString::to_string of a kind
fmt(target, kind) ==
    IF target = "platform" THEN PlatformKind_fmt(kind) ELSE ProgramKind_fmt(kind)

\* the kinds displayed and parsed again
DisplayArgs ==
    [fn : {"display"}, target : {"platform"}, kind : PlatformKind]
    \cup [fn : {"display"}, target : {"program"}, kind : ProgramKind]

\* the conversions a kind offers to the parser of the command line
Conversions == {"FromStr", "From<String>"}

convert(via, target, s) ==
    IF via = "FromStr" THEN from_str(target, s) ELSE from_String(target, s)

\* the identifiers tried: every kind's name, and some that name no kind
Identifiers == PlatformKind \cup ProgramKind \cup {"", "foo", "Native"}

ParseArgs == [fn : {"parse"}, target : {"platform", "program"}, s : Identifiers]

\* Option<i32>: ExitStatus::code() of the host process
ExitCodes == (0 - MaxExitCode)..MaxExitCode
NoCode == [some |-> FALSE, val |-> 0]
Code(c) == [some |-> TRUE, val |-> c]

\* `as u8` on an i32: the low eight bits
as_u8_saturating(c) == IF c > 255 THEN 255 ELSE IF c < 0 THEN 0 ELSE c

as_u8(c) == c % 256

\* what Native::run meets: the host command of the program (an error, an
\* empty vector, or a command), whether the child could be spawned and
\* waited for, its exit code, and whether its captured output could be
\* written to stdout and stderr
RunArgs ==
    [fn : {"native_run"}, host_cmd : {"err", "empty", "ok"}, spawned : BOOLEAN,
     code : {NoCode} \cup {Code(c) : c \in ExitCodes}, dumped : BOOLEAN]

RunOk(status) == [ok |-> TRUE, status |-> status, msg |-> ""]
RunErr(msg) == [ok |-> FALSE, status |-> NoStatus, msg |-> msg]

\* Native::run (native.rs 21-47)
native_run(x) ==
    IF x.host_cmd = "err" THEN RunErr("host_cmd")
    ELSE IF x.host_cmd = "empty" THEN RunErr("Missing host binary")
    ELSE IF ~x.spawned THEN RunErr("io")
    ELSE IF x.code # Code(0) /\ ~x.dumped THEN RunErr("io")
    ELSE IF ~x.code.some THEN RunErr("Missing exit code")
    ELSE RunOk(as_u8(x.code.val))

(***************************************************************************)
(* Program adapters (src/registry/program.rs, program/op_program.rs).      *)
(***************************************************************************)
\* what a fallible call yields: Ok(v), Err(msg), or a panic with msg
Returned(v) == [ok |-> TRUE, panicked |-> FALSE, msg |-> "", val |-> v]
Failed(msg) == [ok |-> FALSE, panicked |-> FALSE, msg |-> msg, val |-> <<>>]
Panic(msg) == [ok |-> FALSE, panicked |-> TRUE, msg |-> msg, val |-> <<>>]

\* a B256 is written as its Display form
Hashes == {"0x11", "0x22"}

\* FixtureInputs (fixture.rs 20-33)
FixtureInputs ==
    [l1_head : Hashes, l2_block_number : {1, 2}, l2_claim : Hashes,
     l2_output_root : Hashes, l2_head : Hashes, l2_chain_id : {2, 10}]

\* ProgramHostSource (program.rs 97-112)
Disk(path) == [kind |-> "Disk", l1 |-> "", l1_beacon |-> "", l2 |-> "", path |-> path]
Rpc(l1, l1_beacon, l2, path) ==
    [kind |-> "Rpc", l1 |-> l1, l1_beacon |-> l1_beacon, l2 |-> l2, path |-> path]

ProgramHostSource ==
    {Disk("tests/1/witness-db")}
        \cup {Rpc(l1, "http://beacon", "http://l2", "tests/1/witness-db") :
                l1 \in {"http://l1", "http://l2"}}

\* ProgramHostInputs (program.rs 85-95)
ProgramHostInputs ==
    [fixture_inputs : FixtureInputs, rollup_cfg_path : {"tests/1/rollup.json"},
     genesis_path : {"tests/1/genesis.json"}, source : ProgramHostSource]

\* OpProgram::new (op_program.rs 17-22)
OpProgram(binary, server_mode) == [binary |-> binary, server_mode |-> server_mode]

\* host_cmd 46-49: the server mode flag
server_flag(program) == IF program.server_mode THEN <<"--server">> ELSE <<>>

\* host_cmd 51-73: the data source flags
source_flags_endpoints_always(source) ==
    <<"--l1", source.l1, "--l1.beacon", source.l1_beacon, "--l2", source.l2,
      "--datadir", source.path>>

source_flags(source) ==
    IF source.kind = "Disk"
    THEN <<"--datadir", source.path>>
    ELSE <<"--l1", source.l1, "--l1.beacon", source.l1_beacon, "--l2", source.l2,
           "--datadir", source.path>>

\* OpProgram::host_cmd (op_program.rs 27-76)
host_cmd(program, inputs) ==
    <<program.binary,
      "--l1.head", inputs.fixture_inputs.l1_head,
      "--l2.head", inputs.fixture_inputs.l2_head,
      "--l2.outputroot", inputs.fixture_inputs.l2_output_root,
      "--l2.claim", inputs.fixture_inputs.l2_claim,
      "--l2.blocknumber", ToString(inputs.fixture_inputs.l2_block_number),
      "--rollup.config", inputs.rollup_cfg_path,
      "--l2.genesis", inputs.genesis_path>>
        \o server_flag(program)
        \o source_flags(inputs.source)

\* ProgramKind::get_program (program.rs 40-48); `todo!()` panics
get_program_never_server(kind, bin_path) ==
    IF kind \in {"op-program-native", "op-program-mips", "op-program-riscv"}
    THEN Returned(OpProgram(bin_path, FALSE))
    ELSE Panic("not yet implemented")

get_program(kind, bin_path) ==
    CASE kind = "op-program-native" -> Returned(OpProgram(bin_path, FALSE))
      [] kind \in {"op-program-mips", "op-program-riscv"} -> Returned(OpProgram(bin_path, TRUE))
      [] OTHER -> Panic("not yet implemented")

\* the host commands asked for: a program kind, the path of its host
\* binary and the inputs of a fixture
HostCmdArgs ==
    [fn : {"host_cmd"}, program_kind : ProgramKind, bin_path : {"bin/op-program"},
     inputs : ProgramHostInputs]

(***************************************************************************)
(* Platforms (src/registry/platform.rs, platform/cannon.rs) and            *)
(* RunnableTest::run (src/pipeline/runnable.rs).                           *)
(***************************************************************************)
\* out.json of the workdir after `cannon run`: not readable, not a
\* PartialCannonOutput, or one (cannon.rs 82-89)
Unread == [read |-> FALSE, parsed |-> FALSE, exited |-> FALSE, exit |-> 0]
Malformed == [read |-> TRUE, parsed |-> FALSE, exited |-> FALSE, exit |-> 0]
PartialCannonOutput(exited, exit) ==
    [read |-> TRUE, parsed |-> TRUE, exited |-> exited, exit |-> exit]

OutJsons ==
    {Unread, Malformed} \cup {PartialCannonOutput(e, s) : e \in BOOLEAN, s \in StatusByte}

\* what Cannon::run meets: the host command of the program, whether the
\* cannon process could be spawned and waited for, and the out.json it left
CannonArgs ==
    [fn : {"cannon_run"}, host_cmd : {"err", "ok"}, spawned : BOOLEAN, out_json : OutJsons]

\* Cannon::run (cannon.rs 51-79)
cannon_run_ignoring_exited(x) ==
    IF x.host_cmd = "err" THEN RunErr("host_cmd")
    ELSE IF ~x.spawned THEN RunErr("io")
    ELSE IF ~x.out_json.read THEN RunErr("io")
    ELSE IF ~x.out_json.parsed THEN RunErr("json")
    ELSE RunOk(x.out_json.exit)

cannon_run(x) ==
    IF x.host_cmd = "err" THEN RunErr("host_cmd")
    ELSE IF ~x.spawned THEN RunErr("io")
    ELSE IF ~x.out_json.read THEN RunErr("io")
    ELSE IF ~x.out_json.parsed THEN RunErr("json")
    ELSE IF ~x.out_json.exited THEN RunErr("Program did not exit")
    ELSE RunOk(x.out_json.exit)

\* the platform objects
Native == [kind |-> "native", binary |-> <<>>]
Cannon(binary) == [kind |-> "cannon", binary |-> binary]

\* PlatformKind::get_platform (platform.rs 54-74); `unimplemented!()` panics
get_platform_asterisc_as_native(kind, binary) ==
    CASE kind = "cannon" ->
            IF binary.some THEN Returned(Cannon(binary.val))
            ELSE Failed("Binary required for cannon platform")
      [] OTHER -> Returned(Native)

get_platform(kind, binary) ==
    CASE kind = "native" -> Returned(Native)
      [] kind = "cannon" ->
            IF binary.some THEN Returned(Cannon(binary.val))
            ELSE Failed("Binary required for cannon platform")
      [] kind = "asterisc" -> Panic("not implemented")

\* load_elf: nothing to do on Native (native.rs 16-19); on Cannon the
\* `cannon load-elf` process (cannon.rs 30-49), which cannot be spawned,
\* fails, or succeeds
load_elf(platform, how) ==
    IF platform.kind = "native" THEN RunOk(NoStatus)
    ELSE IF how = "io" THEN RunErr("io")
    ELSE IF how = "failed" THEN RunErr("Failed to load ELF file into Cannon")
    ELSE RunOk(NoStatus)

\* Platform::run of the platform object
platform_run(platform, program, x) ==
    LET command == host_cmd(program, x.inputs)
    IN  IF platform.kind = "native"
        THEN native_run([host_cmd |-> IF command = <<>> THEN "empty" ELSE "ok",
                         spawned |-> x.spawned, code |-> x.code, dumped |-> x.dumped])
        ELSE cannon_run([host_cmd |-> "ok", spawned |-> x.spawned, out_json |-> x.out_json])

\* the vm artifact of the Option<BuildInstructions> of the platform (69-74)
vm_artifact(build) ==
    IF build.some THEN get_artifact(build.val, "vm") ELSE [some |-> FALSE, val |-> <<>>]

\* the directory tempdir() made (runnable.rs 59)
workdir == "workdir"

\* RunnableTest::run (runnable.rs 57-94): the Result<bool>, or the panic,
\* the calls made on the platform and the directory each was handed
runnable_run_ignoring_load_elf(x) ==
    LET client == get_artifact(x.program_build, "client")
        platform == get_platform(x.platform_kind, vm_artifact(x.platform_build))
        host == get_artifact(x.program_build, "host")
        program == get_program(x.program_kind, host.val)
        result == platform_run(platform.val, program.val, x)
    IN  IF ~x.tempdir THEN [res |-> Failed("io"), calls |-> <<>>, dirs |-> <<>>]
        ELSE IF ~client.some
        THEN [res |-> Failed("Failed to get client artifact"), calls |-> <<>>, dirs |-> <<>>]
        ELSE IF ~platform.ok THEN [res |-> platform, calls |-> <<>>, dirs |-> <<>>]
        ELSE IF ~host.some
        THEN [res |-> Failed("No host artifact"), calls |-> <<>>, dirs |-> <<>>]
        ELSE IF ~program.ok THEN [res |-> program, calls |-> <<>>, dirs |-> <<>>]
        ELSE IF ~result.ok
        THEN [res |-> Failed(result.msg), calls |-> <<"load_elf", "run">>,
              dirs |-> <<workdir, workdir>>]
        ELSE [res |-> Returned(result.status = x.expected_status),
              calls |-> <<"load_elf", "run">>, dirs |-> <<workdir, workdir>>]

runnable_run(x) ==
    LET client == get_artifact(x.program_build, "client")
        platform == get_platform(x.platform_kind, vm_artifact(x.platform_build))
        host == get_artifact(x.program_build, "host")
        program == get_program(x.program_kind, host.val)
        loaded == load_elf(platform.val, x.load_elf)
        result == platform_run(platform.val, program.val, x)
    IN  IF ~x.tempdir THEN [res |-> Failed("io"), calls |-> <<>>, dirs |-> <<>>]
        ELSE IF ~client.some
        THEN [res |-> Failed("Failed to get client artifact"), calls |-> <<>>, dirs |-> <<>>]
        ELSE IF ~platform.ok THEN [res |-> platform, calls |-> <<>>, dirs |-> <<>>]
        ELSE IF ~host.some
        THEN [res |-> Failed("No host artifact"), calls |-> <<>>, dirs |-> <<>>]
        ELSE IF ~program.ok THEN [res |-> program, calls |-> <<>>, dirs |-> <<>>]
        ELSE IF ~loaded.ok
        THEN [res |-> Failed(loaded.msg), calls |-> <<"load_elf">>, dirs |-> <<workdir>>]
        ELSE IF ~result.ok
        THEN [res |-> Failed(result.msg), calls |-> <<"load_elf", "run">>,
              dirs |-> <<workdir, workdir>>]
        ELSE [res |-> Returned(result.status = x.expected_status),
              calls |-> <<"load_elf", "run">>, dirs |-> <<workdir, workdir>>]

\* the tests run: a platform and a program with their build instructions,
\* the expected status of the fixture, and what the environment does
RunnableTests ==
    [fn : {"run"},
     platform_kind : PlatformKind,
     platform_build : {PlatformBuild("native"),
                       [some |-> TRUE, val |-> BuildInstructions("org/vm", {"vm"})],
                       [some |-> TRUE, val |-> BuildInstructions("org/vm", {})]},
     program_kind : {"op-program-native", "op-program-mips", "kona-native"},
     program_build : {BuildInstructions("org/prog", a) : a \in {{"client", "host"}, {"client"}, {"host"}}},
     expected_status : StatusByte,
     inputs : {CHOOSE i \in ProgramHostInputs : i.source.kind = "Disk"},
     tempdir : BOOLEAN,
     load_elf : {"io", "failed", "ok"},
     spawned : BOOLEAN,
     code : {NoCode, Code(0), Code(1)},
     dumped : {TRUE},
     out_json : OutJsons]

(***************************************************************************)
(* The registry and its document form (src/registry/mod.rs): the derived   *)
(* Serialize and Deserialize of FPRegistry, as toml::to_string and         *)
(* toml::from_str drive them.  A table of the document is a function from  *)
(* the keys it holds to their values.                                      *)
(***************************************************************************)
\* the derived Serialize of the kinds (platform.rs 42-52, program.rs
\* 23-37): the variant in kebab-case
PlatformKind_serialize(kind) ==
    CASE kind = "native" -> "native"
      [] kind = "cannon" -> "cannon"
      [] kind = "asterisc" -> "asterisc"

ProgramKind_serialize(kind) ==
    CASE kind = "op-program-native" -> "op-program-native"
      [] kind = "op-program-mips" -> "op-program-mips"
      [] kind = "op-program-riscv" -> "op-program-riscv"
      [] kind = "kona-native" -> "kona-native"
      [] kind = "kona-riscv" -> "kona-riscv"

\* the derived Deserialize of the kinds: the variant of that name, or an
\* unknown variant error
PlatformKind_deserialize(s) ==
    IF s \in {"native", "cannon", "asterisc"} THEN Parsed(s) ELSE ParseError(s)

ProgramKind_deserialize_from_str(s) == ProgramKind_from_str(s)

ProgramKind_deserialize(s) ==
    IF s \in {"op-program-native", "op-program-mips", "op-program-riscv", "kona-native",
              "kona-riscv"}
    THEN Parsed(s)
    ELSE ParseError(s)

\* BuildInstructions (mod.rs 116-129): every field is written and read
BuildInstructions_serialize(b) ==
    [repo |-> b.repo, rev |-> b.rev, workdir |-> b.workdir, cmd |-> b.cmd,
     artifacts |-> [name \in b.artifacts |-> name]]

BuildInstructions_deserialize(t) ==
    [repo |-> t.repo, rev |-> t.rev, workdir |-> t.workdir, cmd |-> t.cmd,
     artifacts |-> DOMAIN t.artifacts]

\* PlatformDefinition (mod.rs 92-100): a None build is not written; a
\* missing build is read as None, a missing default as false
PlatformDefinition_serialize(d) ==
    IF d.build.some
    THEN [default |-> d.default, build |-> BuildInstructions_serialize(d.build.val)]
    ELSE [default |-> d.default]

PlatformDefinition_deserialize(t) ==
    [default |-> IF "default" \in DOMAIN t THEN t.default ELSE FALSE,
     build |-> IF "build" \in DOMAIN t
               THEN [some |-> TRUE, val |-> BuildInstructions_deserialize(t.build)]
               ELSE [some |-> FALSE, val |-> BuildInstructions("", {})]]

\* FPPDefinition (mod.rs 103-113)
FPPDefinition_serialize(d) ==
    ("default" :> d.default)
        @@ ("platform-compat" :> {PlatformKind_serialize(k) : k \in d.platform_compat})
        @@ ("build" :> BuildInstructions_serialize(d.build))

FPPDefinition_deserialize(t) ==
    [default |-> IF "default" \in DOMAIN t THEN t["default"] ELSE FALSE,
     platform_compat |-> {PlatformKind_deserialize(c).kind : c \in t["platform-compat"]},
     build |-> BuildInstructions_deserialize(t["build"])]

\* toml::to_string of an FPRegistry (mod.rs 24-31, 148)
to_string(reg) ==
    [platform |->
        [s \in {PlatformKind_serialize(k) : k \in DOMAIN reg.platform} |->
            PlatformDefinition_serialize(
                reg.platform[CHOOSE k \in DOMAIN reg.platform : PlatformKind_serialize(k) = s])],
     program |->
        [s \in {ProgramKind_serialize(k) : k \in DOMAIN reg.program} |->
            FPPDefinition_serialize(
                reg.program[CHOOSE k \in DOMAIN reg.program : ProgramKind_serialize(k) = s])]]

\* toml::from_str::<FPRegistry> (mod.rs 20, 149)
from_str_registry(doc) ==
    LET known ==
            /\ \A s \in DOMAIN doc.platform : PlatformKind_deserialize(s).ok
            /\ \A s \in DOMAIN doc.program :
                  /\ ProgramKind_deserialize(s).ok
                  /\ \A c \in doc.program[s]["platform-compat"] : PlatformKind_deserialize(c).ok
    IN  IF ~known THEN Failed("unknown variant")
        ELSE Returned(
            [platform |->
                [k \in {PlatformKind_deserialize(s).kind : s \in DOMAIN doc.platform} |->
                    PlatformDefinition_deserialize(
                        doc.platform[CHOOSE s \in DOMAIN doc.platform :
                                        PlatformKind_deserialize(s).kind = k])],
             program |->
                [k \in {ProgramKind_deserialize(s).kind : s \in DOMAIN doc.program} |->
                    FPPDefinition_deserialize(
                        doc.program[CHOOSE s \in DOMAIN doc.program :
                                       ProgramKind_deserialize(s).kind = k])]])

\* the registries written and read: platforms with and without build
\* instructions, programs with every compatibility list
SerdePlatformDefinition(kind) ==
    [default : BOOLEAN,
     build : {PlatformBuild("native"), [some |-> TRUE, val |-> BuildInstructions(kind, {"vm"})]}]

SerdeRegistries ==
    [platform : MapsOver({"native", "cannon"}, SerdePlatformDefinition),
     program : MapsOver({"kona-native", "kona-riscv"}, FPPDefinition)]

RoundTripArgs == [fn : {"round_trip"}, registry : SerdeRegistries]

InitFn ==
    /\ registry = SampleRegistry
    /\ cfg = NoCfg
    /\ fixtures = <<>>
    /\ matrix = <<>>
    /\ pc = "call"
    /\ tests = NoTests
    /\ stage = "none" /\ work = <<>> /\ tstate = <<>> /\ permits = 0 /\ semaphores = 0
    /\ num_passed = 0 /\ summary = NoSummary /\ err = NoError /\ exit_code = NotExited
    /\ genesis = {} /\ witness = {} /\ compressed = <<>> /\ run_calls = <<>>
    /\ decompress_calls = <<>> /\ teardown_calls = <<>>
    /\ built = <<>>
    /\ components = <<>>
    /\ cmds = <<>>
    /\ arg \in ParseArgs \cup RunArgs \cup HostCmdArgs \cup CannonArgs \cup RunnableTests
                \cup RoundTripArgs \cup DisplayArgs
    /\ ret = <<>>

\* the command line hands an identifier of --vm or --program to one of the
\* conversions of the kind, before Cli::run is entered
CallParse ==
    /\ pc = "call" /\ arg.fn = "parse"
    /\ \E via \in Conversions : ret' = <<convert(via, arg.target, arg.s)>>
    /\ pc' = "returned"
    /\ UNCHANGED <<matrix_vars, fixtures, tests, task_vars, num_passed, summary, err,
                   exit_code, fs_vars, built, components, cmds, arg>>

CallNativeRun ==
    /\ pc = "call" /\ arg.fn = "native_run"
    /\ ret' = <<native_run(arg)>>
    /\ pc' = "returned"
    /\ UNCHANGED <<matrix_vars, fixtures, tests, task_vars, num_passed, summary, err,
                   exit_code, fs_vars, built, components, cmds, arg>>

\* get_program on the host binary (runnable.rs 76-81), then host_cmd on the
\* adapter it made (native.rs 27, cannon.rs 57)
CallHostCmd ==
    /\ pc = "call" /\ arg.fn = "host_cmd"
    /\ LET program == get_program(arg.program_kind, arg.bin_path)
       IN  ret' = IF program.ok
                  THEN <<[program |-> program, cmd |-> host_cmd(program.val, arg.inputs)]>>
                  ELSE <<[program |-> program, cmd |-> <<>>]>>
    /\ pc' = "returned"
    /\ UNCHANGED <<matrix_vars, fixtures, tests, task_vars, num_passed, summary, err,
                   exit_code, fs_vars, built, components, cmds, arg>>

CallCannonRun ==
    /\ pc = "call" /\ arg.fn = "cannon_run"
    /\ ret' = <<cannon_run(arg)>>
    /\ pc' = "returned"
    /\ UNCHANGED <<matrix_vars, fixtures, tests, task_vars, num_passed, summary, err,
                   exit_code, fs_vars, built, components, cmds, arg>>

\* a task of the run stage calls RunnableTest::run (pipeline/mod.rs 111)
CallRunnableTestRun ==
    /\ pc = "call" /\ arg.fn = "run"
    /\ ret' = <<runnable_run(arg)>>
    /\ pc' = "returned"
    /\ UNCHANGED <<matrix_vars, fixtures, tests, task_vars, num_passed, summary, err,
                   exit_code, fs_vars, built, components, cmds, arg>>

\* tests::serde_round_trip_fp_registry (mod.rs 146-151): the registry is
\* written to a document and the document is read
CallRoundTrip ==
    /\ pc = "call" /\ arg.fn = "round_trip"
    /\ LET ser == to_string(arg.registry)
       IN  ret' = <<[ser |-> ser, de |-> from_str_registry(ser)]>>
    /\ pc' = "returned"
    /\ UNCHANGED <<matrix_vars, fixtures, tests, task_vars, num_passed, summary, err,
                   exit_code, fs_vars, built, components, cmds, arg>>

\* a kind is displayed, as in the prefix of its progress bar (pipeline/mod.rs
\* 101-106), and the text is parsed
CallDisplay ==
    /\ pc = "call" /\ arg.fn = "display"
    /\ LET shown == fmt(arg.target, arg.kind)
       IN  ret' = <<[shown |-> shown, parsed |-> from_str(arg.target, shown)]>>
    /\ pc' = "returned"
    /\ UNCHANGED <<matrix_vars, fixtures, tests, task_vars, num_passed, summary, err,
                   exit_code, fs_vars, built, components, cmds, arg>>

NextFn ==
    \/ CallDisplay
    \/ CallParse
    \/ CallNativeRun
    \/ CallHostCmd
    \/ CallCannonRun
    \/ CallRunnableTestRun
    \/ CallRoundTrip

SpecFn == InitFn /\ [][NextFn]_vars

(***************************************************************************)
(* Matrix resolution: the claims.                                          *)
(***************************************************************************)
MatrixKinds == {matrix[i].vm_kind : i \in DOMAIN matrix}

DefaultPlatforms == {k \in DOMAIN registry.platform : registry.platform[k].default}

CompatiblePrograms(k) ==
    {p \in DOMAIN registry.program : k \in registry.program[p].platform_compat}

DefaultPrograms == {p \in DOMAIN registry.program : registry.program[p].default}

\* every entry carries the registry's definitions of its platform and programs
CarriesDefinitions ==
    \A i \in DOMAIN matrix :
        /\ matrix[i].vm = registry.platform[matrix[i].vm_kind]
        /\ \A p \in DOMAIN matrix[i].programs : matrix[i].programs[p] = registry.program[p]

\* C1: a test selection without allow-lists resolves to exactly the default
\* platforms, each with exactly the default programs compatible with it.
C1_DefaultSelection ==
    (pc = "Initialized" /\ ~cfg.vm.some /\ ~cfg.program.some) =>
        /\ MatrixKinds = DefaultPlatforms
        /\ CarriesDefinitions
        /\ \A i \in DOMAIN matrix :
              /\ DOMAIN matrix[i].programs = DefaultPrograms \cap CompatiblePrograms(matrix[i].vm_kind)
              /\ \A p \in DOMAIN matrix[i].programs :
                    matrix[i].vm_kind \in matrix[i].programs[p].platform_compat

\* a default platform with a default compatible program, while the registry
\* also holds a non-default platform and programs that are left out
C1_Witness ==
    /\ pc = "Initialized" /\ ~cfg.vm.some /\ ~cfg.program.some
    /\ DOMAIN registry.platform # DefaultPlatforms
    /\ \E i \in DOMAIN matrix :
          /\ DOMAIN matrix[i].programs # {}
          /\ \E j \in DOMAIN matrix : DefaultPrograms \ DOMAIN matrix[j].programs # {}

\* C2 (as claimed): with explicit allow-lists only allow-listed platforms and
\* only allow-listed compatible programs are returned.
C2_OnlyAllowListed ==
    (pc = "Initialized" /\ cfg.vm.some /\ cfg.program.some) =>
        /\ MatrixKinds \subseteq cfg.vm.val
        /\ \A i \in DOMAIN matrix :
              DOMAIN matrix[i].programs \subseteq
                  cfg.program.val \cap CompatiblePrograms(matrix[i].vm_kind)

\* C3: resolve_matrix(None) returns every platform of the registry, each with
\* exactly the programs compatible with it, whatever the default flags.
C3_Unconstrained ==
    pc = "listed" =>
        /\ MatrixKinds = DOMAIN registry.platform
        /\ CarriesDefinitions
        /\ \A i \in DOMAIN matrix :
              DOMAIN matrix[i].programs = CompatiblePrograms(matrix[i].vm_kind)

\* a non-default platform listed with a non-default program
C3_Witness ==
    /\ pc = "listed"
    /\ \E i \in DOMAIN matrix :
          /\ ~matrix[i].vm.default
          /\ \E p \in DOMAIN matrix[i].programs : ~matrix[i].programs[p].default

\* the chosen platform kinds of section 4.1: the allow-list if given, else
\* the default platforms (every known platform when unconstrained)
ChosenKinds ==
    IF ~cfg.given THEN DOMAIN registry.platform
    ELSE IF cfg.vm.some THEN cfg.vm.val ELSE DefaultPlatforms

\* the admissible programs of section 4.1
AdmissiblePrograms(k) ==
    {p \in CompatiblePrograms(k) :
        \/ ~cfg.given
        \/ registry.program[p].default
        \/ (cfg.program.some /\ p \in cfg.program.val)}

NoDuplicateEntries ==
    \A i, j \in DOMAIN matrix : i # j => matrix[i].vm_kind # matrix[j].vm_kind

\* C4 (as claimed): exactly one entry per chosen kind, every allow-listed
\* kind included.
C4_OneEntryPerChosenKind ==
    pc \in {"Initialized", "listed"} =>
        /\ NoDuplicateEntries
        /\ MatrixKinds = ChosenKinds

\* C4 (amended): exactly one entry per chosen kind that the registry defines;
\* a chosen kind without admissible program has an entry with an empty map.
C4_OneEntryPerKnownChosenKind ==
    pc \in {"Initialized", "listed"} =>
        /\ NoDuplicateEntries
        /\ MatrixKinds = ChosenKinds \cap DOMAIN registry.platform
        /\ \A k \in ChosenKinds \cap DOMAIN registry.platform :
              AdmissiblePrograms(k) = {} =>
                  \E i \in DOMAIN matrix :
                      matrix[i].vm_kind = k /\ DOMAIN matrix[i].programs = {}

\* an allow-list naming a kind the registry lacks, next to a kind it has,
\* which is resolved to an entry without programs
C4_Witness ==
    /\ pc = "Initialized" /\ cfg.vm.some
    /\ cfg.vm.val \ DOMAIN registry.platform # {}
    /\ Len(matrix) >= 2
    /\ \E i \in DOMAIN matrix : DOMAIN matrix[i].programs = {}

(***************************************************************************)
(* The pipeline: the claims.                                               *)
(***************************************************************************)
RunTaskFinished(i) == stage = "run" /\ tstate[i].st = "finished"

\* C5 (as claimed): when run returns the error of a task, every task that
\* was spawned has run to completion.
C5_ErrorAfterAllTasksFinished ==
    (pc = "error" /\ stage = "run") =>
        \A i \in DOMAIN tstate : tstate[i].st = "finished"

\* C6: once a run task has ended with an infrastructure error, run never
\* returns Ok and never prints the summary; the process exits with a failure.
C6_TaskErrorIsFatal ==
    (\E i \in DOMAIN tstate : RunTaskFinished(i) /\ tstate[i].err) =>
        /\ pc \in {"run_join", "error"}
        /\ ~summary.some
        /\ exit_code \in {NotExited, 1}

\* run has returned the error of one task while another task had passed
C6_Witness ==
    /\ pc = "error" /\ stage = "run" /\ exit_code = 1
    /\ \E i, j \in DOMAIN tstate :
          /\ RunTaskFinished(i) /\ tstate[i].err
          /\ RunTaskFinished(j) /\ tstate[j].pass /\ tstate[j].joined

PassedTasks == {i \in DOMAIN tstate : tstate[i].status = work[i].expected_status}

\* C7: a test whose backend returned a status is never an error and passes
\* exactly when the status is the expected one; the summary counts every
\* test once, as passed or as failed.
C7_PassIffExpectedStatus ==
    /\ \A i \in DOMAIN tstate :
          (RunTaskFinished(i) /\ tstate[i].status # NoStatus) =>
              /\ ~tstate[i].err
              /\ tstate[i].pass <=> (tstate[i].status = work[i].expected_status)
    /\ pc = "Ran" =>
          /\ summary.some
          /\ summary.passed = Cardinality(PassedTasks)
          /\ summary.failed = Cardinality(DOMAIN tstate \ PassedTasks)
          /\ summary.failed >= 0
          /\ summary.passed + summary.failed = Len(tests.val)

\* a run that recorded one test as passed and one as failed
C7_Witness ==
    pc = "Ran" /\ summary.passed >= 1 /\ summary.failed >= 1

\* C8 (as claimed): with a failed test and no error the pipeline reaches
\* Done and the exit code is not the one of a run in which all tests passed.
C8_ExitCodeReflectsFailedTest ==
    (exit_code # NotExited /\ summary.some /\ summary.failed > 0 /\ ~err.some) =>
        /\ pc = "Done"
        /\ exit_code # exit_code_of(FALSE)

SetupReturnedOk == tests.some /\ (pc = "Ready" \/ stage = "run")

ReferencedFixtures == {tests.val[i].fixture : i \in DOMAIN tests.val}

\* C9: decompress_fixture is never called twice for a fixture directory, and
\* has been called once for every fixture of the tests when setup returns Ok.
C9_DecompressedOncePerFixture ==
    /\ \A d \in DOMAIN fixtures : decompress_calls[d] <= 1
    /\ SetupReturnedOk =>
          \A d \in ReferencedFixtures :
              decompress_calls[d] = 1 /\ d \in genesis /\ d \in witness

\* setup has returned with two tests on the same fixture, decompressed once
C9_Witness ==
    /\ pc = "Ready"
    /\ \E i, j \in DOMAIN tests.val :
          /\ i # j
          /\ tests.val[i].fixture = tests.val[j].fixture
          /\ decompress_calls[tests.val[i].fixture] = 1

\* C10: teardown is never called twice for a fixture directory; when the
\* teardown stage returns Ok every decompressed fixture was cleaned once and
\* neither its genesis.json nor its witness-db is left.
C10_DeletedOncePerFixture ==
    /\ \A d \in DOMAIN fixtures : teardown_calls[d] <= 1
    /\ pc = "Done" =>
          \A d \in DOMAIN fixtures :
              /\ teardown_calls[d] = decompress_calls[d]
              /\ d \notin genesis
              /\ d \notin witness

\* the pipeline is done after two tests on one fixture, cleaned once
C10_Witness ==
    /\ pc = "Done"
    /\ summary.passed + summary.failed >= 2
    /\ \E d \in DOMAIN fixtures : teardown_calls[d] = 1 /\ decompress_calls[d] = 1

(***************************************************************************)
(* The permit pools and the order of the stages: the claims.               *)
(***************************************************************************)
Running == {i \in DOMAIN tstate : tstate[i].st = "running"}

Waiting == {i \in DOMAIN tstate : tstate[i].st = "waiting"}

\* C11: the run stage spawns one task per test, and at no time more tasks
\* than cfg.workers hold a permit (are between acquire and their return).
C11_RunTasksBoundedByWorkers ==
    stage = "run" =>
        /\ tests.some
        /\ work = tests.val
        /\ DOMAIN tstate = DOMAIN tests.val
        /\ Cardinality(Running) <= cfg.workers

\* every permit is taken while another test still waits for one
C11_Witness ==
    /\ stage = "run"
    /\ cfg.workers >= 1
    /\ Cardinality(Running) = cfg.workers
    /\ Waiting # {}

StagesBegun ==
    CASE stage = "none" -> 0
      [] stage = "setup" -> 1
      [] stage = "run" -> 2
      [] stage = "teardown" -> 3

C14_BuildFailureStopsSetup ==
    (\E k \in DOMAIN built : ~built[k].ok) =>
        /\ pc = "error"
        /\ err.some /\ err.kind = "build"
        /\ err.who = built[Len(built)].repo
        /\ \A k \in DOMAIN built : built[k].ok <=> k < Len(built)
        /\ ~tests.some
        /\ \A d \in DOMAIN fixtures : decompress_calls[d] = 0
        /\ genesis = {} /\ witness = {}
        /\ stage = "none" /\ tstate = <<>> /\ semaphores = 0
        /\ ~summary.some

\* C13 (as claimed): a stage can only be invoked on a pipeline that is in
\* the stage before it: setup on a new pipeline, run on one that setup
\* returned, teardown on one that run returned.
C13_StagesOnlyInOrder ==
    [][/\ CallSetup => pc = "Initialized"
       /\ CallRun => pc = "Ready"
       /\ CallTeardown => pc = "Ran"]_vars

(***************************************************************************)
(* BuildInstructions: the claims.                                          *)
(***************************************************************************)
\* the child processes of call j, as positions of cmds
CmdsOf(j) == {k \in DOMAIN cmds : cmds[k].call = j}

Ops(j) == {cmds[k].op : k \in CmdsOf(j)}

Existed(j) == arg.repo \in DOMAIN ret[j].before

\* C15: once try_build has returned Ok, a later try_build of the component
\* runs no clone, leaves the checkout as the first call left it, and
\* get_artifact returns for every name what it returned after the first call.
C15_TryBuildIdempotent ==
    \A i, j \in CallsOf("try_build") :
        (i < j /\ ret[i].ok) =>
            /\ "clone" \notin Ops(j)
            /\ ret[j].after = ret[i].after
            /\ ret[j].artifacts = ret[i].artifacts

\* a build that cloned the repo, followed by a second successful build
C15_Witness ==
    \E i, j \in CallsOf("try_build") :
        /\ i < j /\ ret[i].ok /\ ret[j].ok
        /\ "clone" \in Ops(i)
        /\ \E name \in ArtifactNames : ret[j].artifacts[name].some

Names(e) == {e.who} \ {""}

\* the step of call j that failed, if its error is the error of a step
FailedStep(j) ==
    LET steps == {cmds[k].n : k \in {k \in CmdsOf(j) : cmds[k].op = "step"}}
    IN  IF ret[j].err = CommandEmpty THEN Cardinality(steps) + 1
        ELSE IF steps = {} THEN 0
        ELSE Cardinality(steps)

\* C17 (as claimed): try_build runs the steps in their order once the
\* checkout is there; the first failing step is the last one run, it is run
\* once, and the error names the component and the failing step.
C17_FirstFailingStepStopsBuild ==
    \A j \in CallsOf("try_build") :
        /\ \A k \in CmdsOf(j) :
              cmds[k].op = "step" =>
                  /\ arg.repo \in DOMAIN ret[j].after
                  /\ cmds[k].n = 1 \/ (k - 1 \in CmdsOf(j) /\ cmds[k - 1] = [cmds[k] EXCEPT !.n = @ - 1])
                  /\ cmds[k].n = 1 => (k - 1 \in CmdsOf(j) /\ cmds[k - 1].op \in {"clone", "checkout"})
        /\ (~ret[j].ok /\ FailedStep(j) > 0) =>
              /\ arg.repo \in Names(ret[j].err)
              /\ arg.cmd[FailedStep(j)] \in Names(ret[j].err)

\* C18 (as claimed): get_artifact returns None for a name the component
\* does not declare and for every name while no build of the component has
\* run, and a path only for a declared artifact of a built component.
C18_ArtifactOnlyOfBuiltComponent ==
    \A j \in CallsOf("get_artifact") :
        LET ran == \E i \in CallsOf("try_build") : i < j
            built_ok == \E i \in CallsOf("try_build") : i < j /\ ret[i].ok
        IN  /\ (ret[j].name \notin arg.artifacts \/ ~ran) => ~ret[j].ok
            /\ ret[j].ok =>
                  /\ ret[j].name \in arg.artifacts
                  /\ built_ok
                  /\ ret[j].path = <<COMPONENTS_DIR, arg.repo, arg.workdir, ret[j].name>>

(***************************************************************************)
(* The parsers and Native::run: the claims.                                *)
(***************************************************************************)
KnownNames(target) == IF target = "platform" THEN PlatformKind ELSE ProgramKind

\* C19 (as claimed): an identifier that names no kind is parsed to an error
\* value whose message carries the identifier, without a panic and without
\* becoming some kind, and before the matrix is resolved.
C19_UnknownKindIsParseError ==
    (pc = "returned" /\ arg.fn = "parse" /\ arg.s \notin KnownNames(arg.target)) =>
        /\ ~ret[1].panicked
        /\ ~ret[1].ok
        /\ ret[1].kind = ""
        /\ arg.s \in Range(ret[1].msg)
        /\ matrix = <<>>

Ran(x) == x.host_cmd = "ok" /\ x.spawned

\* the status is the exit code reduced modulo 256
IsTruncationOf(status, c) ==
    /\ status \in 0..255
    /\ \E q \in (0 - MaxExitCode)..MaxExitCode : c = q * 256 + status

\* C20 (as claimed): whenever the host process exits with a code,
\* Native::run returns that code modulo 256 as the status; when it has no
\* exit code, Native::run returns an error and no status.
C20_StatusIsExitCodeByte ==
    (pc = "returned" /\ arg.fn = "native_run" /\ Ran(arg)) =>
        IF arg.code.some
        THEN ret[1].ok /\ IsTruncationOf(ret[1].status, arg.code.val)
        ELSE ~ret[1].ok /\ ret[1].status = NoStatus

\* C20 (amended): when the host process exits with a code, Native::run
\* returns that code modulo 256 as the status, unless the code is not 0 and
\* the captured output could not be written to stdout and stderr, which is
\* an error; when it has no exit code, Native::run returns an error and no
\* status.
C20_StatusIsExitCodeByteUnlessDumpFails ==
    (pc = "returned" /\ arg.fn = "native_run" /\ Ran(arg)) =>
        IF arg.code.some /\ (arg.code.val = 0 \/ arg.dumped)
        THEN ret[1].ok /\ IsTruncationOf(ret[1].status, arg.code.val)
        ELSE ~ret[1].ok /\ ret[1].status = NoStatus

\* an exit code that does not fit a byte was returned truncated
C20_Witness ==
    /\ pc = "returned" /\ arg.fn = "native_run" /\ Ran(arg)
    /\ arg.code.some /\ arg.code.val > 255
    /\ ret[1].ok /\ ret[1].status = arg.code.val - 256

(***************************************************************************)
(* Backends and program adapters: the claims.                              *)
(***************************************************************************)
\* C21: Cannon::run returns the exit byte recorded in out.json only when
\* out.json declares that the guest exited; when out.json declares that the
\* guest did not exit, Cannon::run returns an error and no status, and
\* RunnableTest::run on the cannon platform returns that error to its task
\* of the run stage: it never returns Ok(false), the result of a test whose
\* status differs from the expected one.
C21_NotExitedIsExecutionError ==
    /\ (pc = "returned" /\ arg.fn = "cannon_run") =>
          /\ ret[1].ok =>
                /\ arg.out_json.parsed /\ arg.out_json.exited
                /\ ret[1].status = arg.out_json.exit
          /\ (arg.out_json.parsed /\ ~arg.out_json.exited) =>
                (~ret[1].ok /\ ret[1].status = NoStatus)
    /\ (pc = "returned" /\ arg.fn = "run" /\ arg.platform_kind = "cannon"
            /\ arg.out_json.parsed /\ ~arg.out_json.exited) =>
          ~ret[1].res.ok

\* a test on the cannon platform whose guest did not exit, although its
\* out.json records the expected status: RunnableTest::run called
\* Cannon::run and returned the error
C21_Witness ==
    /\ pc = "returned" /\ arg.fn = "run" /\ arg.platform_kind = "cannon"
    /\ arg.out_json.parsed /\ ~arg.out_json.exited
    /\ arg.out_json.exit = arg.expected_status
    /\ ret[1].calls = <<"load_elf", "run">>
    /\ ~ret[1].res.ok /\ ~ret[1].res.panicked
    /\ ret[1].res.msg = "Program did not exit"

HostCmdReturned == pc = "returned" /\ arg.fn = "host_cmd" /\ ret[1].program.ok

Occurrences(cmd, flag) == {i \in DOMAIN cmd : cmd[i] = flag}

\* the flag occurs once in the command, followed by the value
EncodedOnce(cmd, flag, value) ==
    \E i \in 1..(Len(cmd) - 1) : Occurrences(cmd, flag) = {i} /\ cmd[i + 1] = value

\* the flags host_cmd has for inputs other than the chain id
EndpointFlags == {"--l1", "--l1.beacon", "--l2"}

OtherFlags ==
    {"--l1.head", "--l2.head", "--l2.outputroot", "--l2.claim", "--l2.blocknumber",
     "--rollup.config", "--l2.genesis", "--server", "--datadir"} \cup EndpointFlags

\* some flag of its own carries the chain id
ChainIdEncoded(cmd, inputs) ==
    \E i \in 2..(Len(cmd) - 1) :
        /\ i % 2 = 0
        /\ cmd[i] \notin OtherFlags
        /\ cmd[i + 1] = ToString(inputs.fixture_inputs.l2_chain_id)

\* C23 (as claimed): the vector host_cmd returns begins with the binary
\* path of the adapter and holds, each once and each followed by its value
\* from the inputs, the flags of the L1 head, the L2 head, the claimed
\* output root, the starting output root, the block number, the chain id,
\* the rollup config path and the genesis path.
C23_HostCmdEncodesEveryInput ==
    HostCmdReturned =>
        LET cmd == ret[1].cmd
            inputs == arg.inputs
        IN  /\ cmd[1] = arg.bin_path
            /\ EncodedOnce(cmd, "--l1.head", inputs.fixture_inputs.l1_head)
            /\ EncodedOnce(cmd, "--l2.head", inputs.fixture_inputs.l2_head)
            /\ EncodedOnce(cmd, "--l2.claim", inputs.fixture_inputs.l2_claim)
            /\ EncodedOnce(cmd, "--l2.outputroot", inputs.fixture_inputs.l2_output_root)
            /\ EncodedOnce(cmd, "--l2.blocknumber", ToString(inputs.fixture_inputs.l2_block_number))
            /\ ChainIdEncoded(cmd, inputs)
            /\ EncodedOnce(cmd, "--rollup.config", inputs.rollup_cfg_path)
            /\ EncodedOnce(cmd, "--l2.genesis", inputs.genesis_path)

\* C24: the vector host_cmd returns holds the data directory flag once,
\* followed by the path of the source; for a Disk source it holds none of
\* the endpoint flags, for an Rpc source it holds each of the L1, L1 beacon
\* and L2 endpoint flags once, followed by its endpoint.
C24_ExactlyOneDataSourceBranch ==
    HostCmdReturned =>
        LET cmd == ret[1].cmd
            source == arg.inputs.source
        IN  /\ EncodedOnce(cmd, "--datadir", source.path)
            /\ IF source.kind = "Disk"
               THEN \A flag \in EndpointFlags : Occurrences(cmd, flag) = {}
               ELSE /\ EncodedOnce(cmd, "--l1", source.l1)
                    /\ EncodedOnce(cmd, "--l1.beacon", source.l1_beacon)
                    /\ EncodedOnce(cmd, "--l2", source.l2)

\* host_cmd returned the endpoint flags and the data directory of an Rpc
\* source whose L1 and L2 endpoints are the same
C24_Witness ==
    /\ HostCmdReturned
    /\ arg.inputs.source.kind = "Rpc"
    /\ arg.inputs.source.l1 = arg.inputs.source.l2
    /\ EncodedOnce(ret[1].cmd, "--l1", arg.inputs.source.l1)
    /\ EncodedOnce(ret[1].cmd, "--datadir", arg.inputs.source.path)

\* C25: get_program makes an adapter in server mode for op-program-mips and
\* op-program-riscv, an adapter not in server mode for op-program-native,
\* and no adapter in server mode for any other kind; the vector host_cmd
\* returns holds the server flag if and only if the adapter is in server
\* mode.
C25_ServerFlagIffServerMode ==
    (pc = "returned" /\ arg.fn = "host_cmd") =>
        LET program == ret[1].program
        IN  /\ arg.program_kind \in {"op-program-mips", "op-program-riscv"} =>
                  (program.ok /\ program.val.server_mode)
            /\ arg.program_kind = "op-program-native" =>
                  (program.ok /\ ~program.val.server_mode)
            /\ (program.ok /\ program.val.server_mode) =>
                  arg.program_kind \in {"op-program-mips", "op-program-riscv"}
            /\ program.ok =>
                  (Occurrences(ret[1].cmd, "--server") # {} <=> program.val.server_mode)

\* host_cmd of the adapter of op-program-riscv returned the server flag
C25_Witness ==
    /\ HostCmdReturned
    /\ arg.program_kind = "op-program-riscv"
    /\ Occurrences(ret[1].cmd, "--server") # {}

(***************************************************************************)
(* The stages and their units: the claims.                                 *)
(***************************************************************************)
\* every task of the JoinSet of the stage has returned
AllFinished == \A i \in DOMAIN tstate : tstate[i].st = "finished"

\* C26: the run stage begins only from the setup stage and only when every
\* decompression task has returned; the teardown stage begins only from the
\* run stage and only when every run task has returned; genesis.json and
\* witness-db of a fixture are created or deleted only by a step of the
\* setup stage or of the teardown stage, never while the run stage is on.
C26_StagesStrictlySequential ==
    [][/\ (stage # "run" /\ stage' = "run") => (stage = "setup" /\ AllFinished)
       /\ (stage # "teardown" /\ stage' = "teardown") => (stage = "run" /\ AllFinished)
       /\ (genesis' # genesis \/ witness' # witness) =>
             (stage \in {"setup", "teardown"} /\ stage' = stage)]_vars

\* the teardown stage is deleting what the setup stage decompressed, after
\* every test was run
C26_Witness ==
    /\ stage = "teardown"
    /\ run_calls # <<>> /\ \A i \in DOMAIN run_calls : run_calls[i] = 1
    /\ \E d \in DOMAIN fixtures :
          decompress_calls[d] = 1 /\ teardown_calls[d] = 1 /\ d \notin genesis

\* C27: genesis.json.zst and witness-db.tar.zst of every fixture directory
\* are there at every moment of the pipeline, in particular after setup,
\* run and teardown have returned: decompression and teardown change only
\* genesis.json and witness-db.
C27_CompressedFilesKept ==
    \A d \in DOMAIN fixtures : compressed[d] = Archives

\* the pipeline is through and a fixture was decompressed and cleaned
C27_Witness ==
    /\ pc = "Done"
    /\ \E d \in DOMAIN fixtures :
          /\ decompress_calls[d] = 1 /\ teardown_calls[d] = 1
          /\ d \notin genesis /\ d \notin witness
          /\ compressed[d] = Archives

\* the fixtures discovered: the directories with a descriptor whose name
\* matches the glob
Discovered ==
    {d \in DOMAIN fixtures :
        fixtures[d] # NoDescriptor /\ Pattern_matches(glob_of(cfg), file_name(d))}

\* the units of the cross product of the matrix and the discovered fixtures
CrossProduct ==
    UNION {{RunnableTest(matrix[i], p, d) : p \in DOMAIN matrix[i].programs, d \in Discovered} :
              i \in DOMAIN matrix}

RECURSIVE NumPrograms(_)
NumPrograms(m) ==
    IF m = <<>> THEN 0 ELSE Cardinality(DOMAIN Head(m).programs) + NumPrograms(Tail(m))

C30_EachUnitRunOnce ==
    /\ [](stage = "run" =>
             /\ tests.some /\ work = tests.val
             /\ DOMAIN tstate = DOMAIN work /\ DOMAIN run_calls = DOMAIN work
             /\ \A i \in DOMAIN work :
                   run_calls[i] = IF tstate[i].st = "finished" THEN 1 ELSE 0)
    /\ [](stage = "setup" => (tests.some /\ work = decompress_unique_fixtures(tests.val)))
    /\ [](pc = "Ran" => \A i \in DOMAIN tests.val : run_calls[i] = 1)
    /\ [][tests.some =>
             \/ tests' = tests
             \/ /\ tests' = NoTests /\ stage' = "teardown"
                /\ work' = teardown_unique_fixtures(tests.val)]_vars

\* the run stage returned Ok after two tests, each run once
C30_Witness ==
    /\ pc = "Ran" /\ tests.some /\ Len(tests.val) = 2
    /\ \A i \in DOMAIN tests.val : run_calls[i] = 1 /\ tstate[i].st = "finished"

RunnableRunReturned == pc = "returned" /\ arg.fn = "run"

\* the load_elf of the platform the test runs on failed
LoadElfFailed ==
    LET platform == get_platform(arg.platform_kind, vm_artifact(arg.platform_build))
    IN  platform.ok /\ ~load_elf(platform.val, arg.load_elf).ok

Stages == {"setup", "run", "teardown"}
LockTasks == UNION {{1..n} : n \in 1..(MaxWorkers + 1)}

\* a task that was spawned: it waits at `semaphore.acquire().await`
LockSpawned == [at |-> "acquire", guard |-> FALSE, permit |-> FALSE, err |-> FALSE]

\* the tasks holding a guard of the mutex of the progress sink
Holders == {i \in DOMAIN tstate : tstate[i].guard}

\* the calling future holds the guard while it finishes the bar (195-198,
\* 314-317)
MainHolds == pc = "finish_with_message"

\* Mutex::lock resolves when no guard is out
Mutex_free == Holders = {} /\ ~MainHolds

InitLock ==
    /\ registry = SampleRegistry
    /\ cfg \in {c \in SampleConfigs : c.test = None /\ c.vm = None /\ c.program = None}
    /\ fixtures = <<>>
    /\ matrix = <<>>
    /\ pc = "join"
    /\ tests = NoTests
    /\ stage \in Stages
    /\ \E ts \in LockTasks : work = [i \in ts |-> i]
    /\ tstate = [i \in DOMAIN work |-> LockSpawned]
    /\ permits = Semaphore_new(cfg.workers)
    /\ semaphores = 1
    /\ num_passed = 0 /\ summary = NoSummary /\ err = NoError /\ exit_code = NotExited
    /\ genesis = {} /\ witness = {} /\ compressed = <<>> /\ run_calls = <<>>
    /\ decompress_calls = <<>> /\ teardown_calls = <<>>
    /\ built = <<>>
    /\ NoCall

\* what a stage leaves alone while its tasks run
lock_frame ==
    <<matrix_vars, fixtures, tests, stage, work, semaphores, run_calls, num_passed, summary,
      exit_code, fs_vars, built, call_vars>>

\* `let _permit = semaphore.acquire().await?` (93, 179, 298): the next await
\* is the lock of the run stage, the work of the other stages
PermitAcquired(i) ==
    /\ tstate[i].at = "acquire"
    /\ permits > 0
    /\ permits' = permits - 1
    /\ tstate' = [tstate EXCEPT ![i].permit = TRUE,
                                ![i].at = IF stage = "run" THEN "lock" ELSE "work"]
    /\ UNCHANGED <<pc, err, lock_frame>>

\* `multi_progress.lock().await` (96), `progress_bar.lock().await` (185,
\* 304): the guard is handed out
ProgressLocked(i) ==
    /\ tstate[i].at = "lock"
    /\ Mutex_free
    /\ tstate' = [tstate EXCEPT ![i].guard = TRUE, ![i].at = "update"]
    /\ UNCHANGED <<pc, err, permits, lock_frame>>

\* after the update: the run stage goes on to `case.run().await` (111),
\* where a task of a dropped JoinSet ends; the other stages return Ok (187,
\* 306) and drop the permit
after_update(t) ==
    IF stage = "run"
    THEN IF pc = "error" THEN [t EXCEPT !.at = "aborted", !.permit = FALSE]
         ELSE [t EXCEPT !.at = "work"]
    ELSE [t EXCEPT !.at = "done", !.permit = FALSE]

\* `.add(ProgressBar::new_spinner())` (96), `.inc(1)` (185, 304): the update
\* on the guard, which is a temporary of the statement and dropped at its end
ProgressUpdated_keeping_guard(i) ==
    /\ tstate[i].at = "update"
    /\ tstate' = [tstate EXCEPT ![i] = after_update(@)]
    /\ permits' = IF tstate'[i].permit THEN permits ELSE permits + 1
    /\ UNCHANGED <<pc, err, lock_frame>>

ProgressUpdated(i) ==
    /\ tstate[i].at = "update"
    /\ tstate' = [tstate EXCEPT ![i] = after_update([@ EXCEPT !.guard = FALSE])]
    /\ permits' = IF tstate'[i].permit THEN permits ELSE permits + 1
    /\ UNCHANGED <<pc, err, lock_frame>>

\* `case.run().await?` (111), `test.decompress_fixture().await?` (301),
\* `test.teardown().await?` (182): the child processes end, and the task
\* returns an error, or goes on: to its return in the run stage (114-127),
\* to the lock in the other stages
Worked(i) ==
    /\ tstate[i].at = "work"
    /\ \E failed \in BOOLEAN :
          tstate' = [tstate EXCEPT
                        ![i].err = failed,
                        ![i].at = IF failed \/ stage = "run" THEN "done" ELSE "lock",
                        ![i].permit = ~(failed \/ stage = "run")]
    /\ permits' = IF tstate'[i].permit THEN permits ELSE permits + 1
    /\ UNCHANGED <<pc, err, lock_frame>>

\* the tasks a dropped JoinSet ends: those at an await; a task in the middle
\* of its update runs on to its next await
lock_abort(ts) ==
    [i \in DOMAIN ts |->
        IF ts[i].at \in {"acquire", "lock", "work"}
        THEN [ts[i] EXCEPT !.at = "aborted", !.permit = FALSE, !.guard = FALSE]
        ELSE ts[i]]

\* `result??` in the join loop (133-135, 191-193, 310-312): a task that
\* returned is handed out; its error is returned and the JoinSet dropped
Joined(i) ==
    /\ pc = "join"
    /\ tstate[i].at = "done"
    /\ IF tstate[i].err
       THEN /\ pc' = "error"
            /\ err' = Error(stage, "")
            /\ tstate' = lock_abort([tstate EXCEPT ![i].at = "joined"])
            /\ permits' = permits + Cardinality({j \in DOMAIN tstate : tstate[j].permit /\ ~tstate'[j].permit})
       ELSE /\ tstate' = [tstate EXCEPT ![i].at = "joined"]
            /\ UNCHANGED <<pc, err, permits>>
    /\ UNCHANGED lock_frame

\* the join loop is over: run prints its summary and returns (136-145), the
\* other stages lock the bar (195-197, 314-316)
MainLocked ==
    /\ pc = "join"
    /\ \A i \in DOMAIN tstate : tstate[i].at = "joined"
    /\ stage = "run" \/ Mutex_free
    /\ pc' = IF stage = "run" THEN "returned" ELSE "finish_with_message"
    /\ UNCHANGED <<tstate, err, permits, lock_frame>>

\* `.finish_with_message(..)` (198, 317) and the return
MainFinished ==
    /\ pc = "finish_with_message"
    /\ pc' = "returned"
    /\ UNCHANGED <<tstate, err, permits, lock_frame>>

NextLock ==
    \/ \E i \in DOMAIN tstate : PermitAcquired(i)
    \/ \E i \in DOMAIN tstate : ProgressLocked(i)
    \/ \E i \in DOMAIN tstate : ProgressUpdated(i)
    \/ \E i \in DOMAIN tstate : Worked(i)
    \/ \E i \in DOMAIN tstate : Joined(i)
    \/ MainLocked
    \/ MainFinished

SpecLock == InitLock /\ [][NextLock]_vars

\* C32: the progress sink is used under mutual exclusion, and a task holds
\* its guard only for the update: never while it waits for a permit, while
\* its child process runs, while it waits for the lock, or after it ended
C32_ProgressLockHeldOnlyForUpdate ==
    /\ Cardinality(Holders) + (IF MainHolds THEN 1 ELSE 0) <= 1
    /\ \A i \in DOMAIN tstate : tstate[i].guard => tstate[i].at = "update"

\* one task updates the sink while the child process of another runs and a
\* third waits for a permit
C32_Witness ==
    \E i, j, k \in DOMAIN tstate :
        /\ tstate[i].guard /\ tstate[i].at = "update"
        /\ tstate[j].at = "work" /\ ~tstate[j].guard
        /\ tstate[k].at = "acquire" /\ ~tstate[k].guard

(***************************************************************************)
(* Failures of the setup and run stages: the claims.                       *)
(***************************************************************************)
\* a task of the setup stage returned an error
DecompressFailed(i) == stage = "setup" /\ tstate[i].st = "finished" /\ tstate[i].err

\* C33 (as claimed): when the decompression of a fixture fails, setup does
\* not return Ok and the run stage is not started, and the error setup
\* returns names a fixture whose decompression failed.
C33_DecompressFailureNamesFixture ==
    /\ (\E i \in DOMAIN tstate : DecompressFailed(i)) =>
          /\ pc \in {"setup_join", "error"}
          /\ run_calls = <<>> /\ ~summary.some
    /\ (pc = "error" /\ err.kind = "decompress") =>
          \E i \in DOMAIN tstate :
              DecompressFailed(i) /\ err.who = file_name(work[i].fixture)

\* what of C33 the code does: the error stops setup before the run stage
C33_DecompressFailureStopsSetup ==
    /\ (\E i \in DOMAIN tstate : DecompressFailed(i)) =>
          /\ pc \in {"setup_join", "error"}
          /\ run_calls = <<>> /\ ~summary.some
    /\ (pc = "error" /\ err.kind = "decompress") =>
          \E i \in DOMAIN tstate : DecompressFailed(i)

(***************************************************************************)
(* The identifiers of the kinds: the claims.                               *)
(***************************************************************************)
\* C34 (as claimed): for every PlatformKind and every ProgramKind, parsing
\* the text the kind is displayed as gives the kind again.
C34_DisplayParseRoundTrip ==
    (pc = "returned" /\ arg.fn = "display") =>
        /\ ret[1].parsed.ok
        /\ ret[1].parsed.kind = arg.kind

\* C35: once the run stage has returned an error, teardown is not executed:
\* no teardown task is spawned, nothing is deleted, and the genesis file and
\* the witness directory of every fixture of the run are still there when
\* the process has ended
C35_NoTeardownAfterRunError ==
    (err.some /\ err.kind = "run") =>
        /\ pc = "error" /\ stage = "run"
        /\ \A d \in DOMAIN fixtures : teardown_calls[d] = 0
        /\ \A i \in DOMAIN work : work[i].fixture \in genesis \cap witness

\* the process ended with the error of the run stage, files left behind
C35_Witness ==
    /\ err.some /\ err.kind = "run"
    /\ exit_code # NotExited
    /\ genesis # {} /\ witness # {}

(***************************************************************************)
(* Missing artifacts.                                                      *)
(***************************************************************************)
\* the build instructions of the test lack an artifact its run needs: the
\* client or the host of the program, or the vm of the cannon platform
MissingArtifact ==
    \/ "client" \notin arg.program_build.artifacts
    \/ "host" \notin arg.program_build.artifacts
    \/ /\ arg.platform_kind = "cannon"
       /\ ~(arg.platform_build.some /\ "vm" \in arg.platform_build.val.artifacts)

SpecFair == Spec /\ WF_vars(Next)

\* the indices of the tasks of a stage: at most one per platform, program
\* and fixture
TaskIds ==
    1..(Cardinality(DOMAIN SampleRegistry.platform)
        * Cardinality(DOMAIN SampleRegistry.program) * MaxFixtures)

Terminated == pc \in {"Done", "error"}

\* C37 (as claimed): with at least one worker, every task that waits for a
\* permit eventually has one, every test of a started run stage is eventually
\* executed, and the pipeline eventually is Done or has returned an error.
C37_EveryStageTerminates ==
    /\ \A i \in TaskIds :
          (cfg.workers >= 1 /\ i \in DOMAIN tstate /\ tstate[i].st = "waiting")
              ~> (i \in DOMAIN tstate /\ tstate[i].st \in {"running", "finished"})
    /\ (cfg.workers >= 1 /\ pc = "run_join")
          ~> (\A i \in DOMAIN run_calls : run_calls[i] = 1)
    /\ (cfg.workers >= 1) ~> Terminated

\* what of C37 the code does: with at least one worker the pipeline ends,
\* Done or with an error, and no task is left waiting or running
C37_PipelineTerminates ==
    (cfg.workers >= 1) ~>
        (Terminated /\ \A i \in DOMAIN tstate : tstate[i].st \in {"finished", "aborted"})

(***************************************************************************)
(* A pool without permits.                                                 *)
(***************************************************************************)
\* C38 (as claimed): with a worker count of 0, once a fixture has been
\* discovered no task ever acquires a permit, the pipeline never gets to
\* Ready or beyond, and no error is reported.
C38_ZeroWorkersBlockSetup ==
    (cfg.workers = 0 /\ tests.some /\ Discovered # {}) =>
        /\ \A i \in DOMAIN tstate : tstate[i].st = "waiting"
        /\ pc \in {"gathered", "setup_join"}
        /\ ~err.some /\ exit_code = NotExited

\* C38 (amended): the same once a test has been gathered, which takes a
\* discovered fixture and an entry of the matrix with a program
C38_ZeroWorkersBlockSetupOfTests ==
    (cfg.workers = 0 /\ tests.some /\ tests.val # <<>>) =>
        /\ \A i \in DOMAIN tstate : tstate[i].st = "waiting"
        /\ pc \in {"gathered", "setup_join"}
        /\ ~err.some /\ exit_code = NotExited

\* the decompression task of a fixture waits for a permit of an empty pool
C38_Witness ==
    /\ cfg.workers = 0 /\ tests.some /\ tests.val # <<>>
    /\ pc = "setup_join" /\ permits = 0
    /\ tstate # <<>> /\ \A i \in DOMAIN tstate : tstate[i].st = "waiting"

(***************************************************************************)
(* Stages called on a pipeline without tests, or with none to run.         *)
(***************************************************************************)
NoTestsToRun == "No tests to run"

\* C39: run or teardown called on a pipeline whose tests are None returns
\* the error No tests to run and leaves the pool count, the tasks, the
\* files and the summary as they were; run called on a pipeline whose setup
\* gathered no test returns Ok and its summary says 0 passed and 0 failed
C39_NoTestsToRunOrNothingRun ==
    [][/\ ((CallRun \/ CallTeardown) /\ ~tests.some) =>
              /\ pc' = "error" /\ err'.some /\ err'.who = NoTestsToRun
              /\ UNCHANGED <<task_vars, fs_vars, summary, tests>>
       /\ (CallRun /\ tests.some /\ tests.val = <<>>) =>
              /\ pc' = "Ran" /\ ~err'.some
              /\ summary' = [some |-> TRUE, passed |-> 0, failed |-> 0]]_vars

\* run was refused on a new pipeline: no stage was entered, no file made
C39_Witness ==
    /\ pc = "error" /\ err.who = NoTestsToRun /\ err.kind = "run"
    /\ ~tests.some /\ stage = "none"
    /\ genesis = {} /\ witness = {} /\ ~summary.some

(***************************************************************************)
(* Fixture directories without a usable descriptor.                        *)
(***************************************************************************)
\* the directories whose name matches the glob and whose fixture.toml is
\* missing or does not parse
Undescribed ==
    {d \in DOMAIN fixtures :
        fixtures[d] = NoDescriptor /\ Pattern_matches(glob_of(cfg), file_name(d))}

\* C40: a directory whose name matches the glob and whose descriptor is
\* missing or does not parse is left out without an error: no test is
\* gathered for it, no task works on it, it is not decompressed, and the
\* summary counts the tests of the other directories only
C40_UndescribedDirectorySkipped ==
    \A d \in Undescribed :
        /\ \A i \in DOMAIN tests.val : tests.val[i].fixture # d
        /\ \A i \in DOMAIN work : work[i].fixture # d
        /\ decompress_calls[d] = 0 /\ teardown_calls[d] = 0
        /\ d \notin genesis \cup witness
        /\ pc = "gathered" => (tests.some /\ ~err.some)
        /\ summary.some =>
              summary.passed + summary.failed = NumPrograms(matrix) * Cardinality(Discovered)

\* the only directory has no descriptor: the pipeline ran nothing, is Done
\* and exits with 0
C40_Witness ==
    /\ Undescribed # {}
    /\ pc = "Done" /\ exit_code = 0
    /\ summary = [some |-> TRUE, passed |-> 0, failed |-> 0]

====
